---- MODULE Spec2Model ----
(***************************************************************************)
(* Korrent: the resilient torrent search resolver.                         *)
(*                                                                         *)
(*  - Custom1337x (torrent_gui_app/custom_1337x.py): the direct-scrape     *)
(*    backend, with its pool of mirror endpoints, the rotation cursor and  *)
(*    the search / info retry loops.                                       *)
(*  - TorrentApiClient (torrent_gui_app/api_client.py): the aggregator     *)
(*    backend, one GraphQL request per search, and the normalisation of    *)
(*    the records it gets back.                                            *)
(*                                                                         *)
(* Python values are modelled as follows: None is the string NoneVal, a    *)
(* Python object with attributes is a TLA+ record (a function from the     *)
(* attribute names), and a JSON value is a tagged record (see JNull ..).   *)
(***************************************************************************)
EXTENDS Integers, Sequences, FiniteSets, TLC

VARIABLES
    \* ---- Custom1337x instance fields (custom_1337x.py:53-60)
    base_url,               \* self.base_url: the active endpoint
    url_builder,            \* self.url_builder: the endpoint the URLBuilder was built for
    scraper,                \* self.scraper: the set of endpoints this session was used against
    current_domain_index,   \* self.current_domain_index, 0-based as in the source
    \* ---- the call in progress on the instance (sequential use)
    op,                     \* "none" | "search" | "info" | "rotate": the latest call made
    pc,                     \* position inside the call; "idle" when no call is running
    retpc,                  \* where _rotate_domain returns to
    attempts,               \* the local variable attempts of search / info
    args,                   \* the arguments of the call
    outcome,                \* what the current attempt met
    ret,                    \* the value the last completed call returned
    \* ---- history of the call / instance, read only by the properties
    fetches,                \* number of scraper.get calls issued by the current call
    fetched,                \* endpoints fetched by the current call
    call_rotations,         \* _rotate_domain calls completed by the current call
    ctor_base,              \* base_url as it was right after __init__
    ctor_arg,               \* the base_url argument __init__ was called with
    rotated,                \* direct _rotate_domain calls completed in sequence since
                            \* __init__; K + 1 once there were more, or another call
    start_index,            \* current_domain_index when the current call started
    \* ---- TorrentApiClient: the latest search call (api_client.py:35-182)
    api_pc,                 \* "idle", or "posted" while the request is with the service
    api_response,           \* what the service answered to the request of the call
    api_ret,                \* what the call returned or raised
    api_log,                \* the lines the call printed
    api_posts,              \* number of session.post calls the call issued
    api_args,               \* the arguments of the call
    api_variables,          \* the GraphQL variables the call sent
    \* ---- Custom1337x used by several threads at once: each thread runs search
    c_pc,                   \* thread -> its position inside search / _rotate_domain
    c_attempts,             \* thread -> its local variable attempts
    c_reg,                  \* thread -> the value it has loaded and not yet stored
    c_url,                  \* thread -> the endpoint the URL it built is on
    c_rotations,            \* _rotate_domain calls completed by all threads
    scraper_for,            \* the endpoint self.scraper was created for (kept up to
                            \* date by the threads)
    last_fetch,             \* the latest scraper.get of a thread: its URL's endpoint,
                            \* what the session had been used against, what it was
                            \* created for
    \* ---- TorrentApp, the main window (app.py), and its SearchWorker threads
    gui_pc,                 \* "loop": the GUI thread is in its event loop;
                            \* "waiting": it is inside start_search, in worker.wait()
    pending_query,          \* the query of the start_search that is waiting
    search_worker,          \* self.search_worker: 0 for None, else the worker's number
    w_pc,                   \* worker -> "unborn" | "running" | "emitted" | "finished"
    gui_queue,              \* signals emitted by workers, not yet delivered to the slots
    results_table,          \* the rows of search_tab.results_table
    search_results_cache,   \* self.search_results_cache
    search_history,         \* self.search_history
    dialog,                 \* the latest QMessageBox.critical shown
    table_from,             \* the worker whose results are the rows of the table, or 0
    cache_from,             \* the workers whose results are in search_results_cache
    superseded,             \* the workers that were still running when a later search
                            \* was started
    selected_row,           \* the selected row of the results table, 0 for none
    current_torrent_info,   \* self.current_torrent_info
    favorites,              \* self.favorites, which favorites_tab.favorites_table shows
    favorite_row,           \* the selected row of the favorites table, 0 for none
    \* ---- TorrentApiClient's normalisation, applied to one input
    size_in,                \* the byte count handed to _format_size, as a numeral
    size_out,               \* what _format_size made of it
    conv_in,                \* the raw record handed to _convert_torrent
    conv_out,               \* what _convert_torrent made of it
    \* ---- TorrentApiClient.test_connection, applied to one probe outcome
    probe_in,               \* what session.post did: a status code or an exception
    probe_out,              \* what test_connection returned
    \* ---- TorrentApiServerManager (app.py) and the processes it spawns
    srv_pc,                 \* "idle", or where start_server / stop_server stands
    server_executable,      \* self.server_executable, None when none was found
    temp_dir,               \* "none": no temp_dir attribute; "present" | "removed"
    process,                \* self.process: None or the Popen of a spawned process
    proc_state,             \* process -> "unborn" | "running" | "exited" (by itself)
                            \* | "terminated" | "killed"
    answering,              \* who answers HTTP 200 at api_url: spawned processes and
                            \* "external", a server this application did not start
    polls,                  \* iterations of start_server's waiting loop so far
    start_ret,              \* what the latest start_server returned
    started,                \* the process spawned by the latest start_server that
                            \* returned True, or None
    stop_log                \* per stop_server since then: whether it changed anything

scrapeVars == <<base_url, url_builder, scraper, current_domain_index, op, pc, retpc,
                attempts, args, outcome, ret, fetches, fetched, call_rotations,
                ctor_base, ctor_arg, rotated, start_index>>

apiVars == <<api_pc, api_response, api_ret, api_log, api_posts, api_args, api_variables>>

concVars == <<c_pc, c_attempts, c_reg, c_url, c_rotations, scraper_for, last_fetch>>

appVars == <<gui_pc, pending_query, search_worker, w_pc, gui_queue, results_table,
             search_results_cache, search_history, dialog, table_from, cache_from,
             superseded>>

detVars == <<selected_row, current_torrent_info>>

favVars == <<favorites, favorite_row>>

normVars == <<size_in, size_out, conv_in, conv_out>>

srvVars == <<probe_in, probe_out, srv_pc, server_executable, temp_dir, process, proc_state,
             answering, polls, start_ret, started, stop_log>>

vars == <<scrapeVars, apiVars, concVars, appVars, normVars, srvVars, detVars, favVars>>

\* What the steps of one component leave alone.
scrapeFrame == <<apiVars, concVars, appVars, normVars, srvVars, detVars, favVars>>

apiFrame == <<scrapeVars, concVars, appVars, normVars, srvVars, detVars, favVars>>

appFrame == <<scrapeVars, apiVars, concVars, normVars, srvVars, favVars>>

favFrame == <<scrapeVars, apiVars, concVars, normVars, srvVars>>

----------------------------------------------------------------------------
(* Python values *)

NoneVal == "<None>"

\* Python truthiness of an optional string: None and "" are falsy.
Truthy(v) == v \notin {NoneVal, ""}

Min(a, b) == IF a < b THEN a ELSE b

Range(s) == {s[i] : i \in DOMAIN s}

----------------------------------------------------------------------------
(* The endpoint pool *)

ALTERNATIVE_DOMAINS ==
    << "https://1337x.unblockit.kim",
       "https://1337x.unblockninja.com",
       "https://1337x.to",
       "https://1337x.proxyninja.org",
       "https://1337x.is",
       "https://1337x.st",
       "https://x1337x.ws",
       "https://x1337x.eu",
       "https://x1337x.se",
       "https://x1337x.cc",
       "https://1337.abcvg.info" >>

\* self.domains: the list itself is never reassigned or mutated after __init__.
domains == ALTERNATIVE_DOMAINS

\* len(self.domains); also self.max_retries
K == Len(domains)

\* A retry budget one short of the pool.
max_retries_short == K - 1

\* self.max_retries = len(self.domains), line 60
max_retries == K

\* self.domains[i] with the source's 0-based index
DomainAt(i) == domains[i + 1]

\* self.domains.index(url), 0-based, for a member of the list
IndexOf(url) == (CHOOSE i \in 1..K : domains[i] = url) - 1

\* An endpoint a caller may pass to __init__ that is not in the pool.
OffPoolUrl == "https://mirror.example"

\* The base_url arguments of __init__: "" (the default), each pool member, one non-member.
CtorArgs == {""} \cup Range(domains) \cup {OffPoolUrl}

\* A scraper as cloudscraper.create_scraper returns it: used against nothing yet.
FreshScraper == {}

----------------------------------------------------------------------------
(* Custom1337x.__init__ *)

\* The endpoint __init__ settles on: the argument, or random.choice(ALTERNATIVE_DOMAINS)
\* (any member r of the pool) when the argument is falsy.
CtorBaseUrl(arg, r) == IF ~Truthy(arg) THEN r ELSE arg

\* CtorIndex with the test of line 59 left out: always the first entry.
CtorIndexAlwaysFirst(u) == 0

\* self.domains.index(base_url) if base_url in self.domains else 0
CtorIndex(u) == IF u \in Range(domains) THEN IndexOf(u) ELSE 0

NoRet == [kind |-> "none"]

\* No search has been made on the TorrentApiClient yet.
ApiIdle ==
    /\ api_pc = "idle"
    /\ api_response = [kind |-> "none"]
    /\ api_ret = NoRet
    /\ api_log = <<>>
    /\ api_posts = 0
    /\ api_args = [kind |-> "none"]
    /\ api_variables = [kind |-> "none"]

\* The number of threads that share one Custom1337x.
NThreads == 2

Threads == 1..NThreads

\* No thread has called into the instance yet; the scraper is the constructor's
\* (line 53), made for the constructor's endpoint.
ConcIdle ==
    /\ c_pc = [t \in Threads |-> "c_idle"]
    /\ c_attempts = [t \in Threads |-> 0]
    /\ c_reg = [t \in Threads |-> NoneVal]
    /\ c_url = [t \in Threads |-> NoneVal]
    /\ c_rotations = 0
    /\ scraper_for = base_url
    /\ last_fetch = [kind |-> "none"]

\* Searches one run of the application is followed through.
MaxSearches == 2

Workers == 1..MaxSearches

\* An empty dict.
EmptyDict == [k \in {} |-> NoneVal]

NoDialog == [title |-> NoneVal, message |-> NoneVal]

\* The main window after TorrentApp.__init__ (app.py:302-306), with no search
\* history on disk.
AppIdle ==
    /\ gui_pc = "loop"
    /\ pending_query = NoneVal
    /\ search_worker = 0
    /\ w_pc = [w \in Workers |-> "unborn"]
    /\ gui_queue = <<>>
    /\ results_table = <<>>
    /\ search_results_cache = EmptyDict
    /\ search_history = <<>>
    /\ dialog = NoDialog
    /\ table_from = 0
    /\ cache_from = {}
    /\ superseded = {}

\* self.current_torrent_info = None: a record without attributes, which can be
\* told from a TorrentInfo.
NoTorrentInfo == [none |-> TRUE]

\* No row is selected and no details are shown (app.py line 304).
DetIdle ==
    /\ selected_row = 0
    /\ current_torrent_info = NoTorrentInfo

\* No favorites file (app.py lines 303 and 800-807) and no favorite selected.
FavIdle ==
    /\ favorites = <<>>
    /\ favorite_row = 0

NotYet == [kind |-> "none"]

\* Neither _format_size nor _convert_torrent has been handed anything.
NormIdle ==
    /\ size_in = NotYet
    /\ size_out = NotYet
    /\ conv_in = NotYet
    /\ conv_out = NotYet

\* Processes one manager spawns in the model.
MaxSpawns == 2

Pids == {"pid" \o ToString(i) : i \in 1..MaxSpawns}

\* No probe was made; a manager that found no executable and spawned nothing.
SrvIdle ==
    /\ probe_in = NotYet
    /\ probe_out = NotYet
    /\ srv_pc = "idle"
    /\ server_executable = NoneVal
    /\ temp_dir = "none"
    /\ process = NoneVal
    /\ proc_state = [p \in Pids |-> "unborn"]
    /\ answering = {}
    /\ polls = 0
    /\ start_ret = NoneVal
    /\ started = NoneVal
    /\ stop_log = <<>>

\* The instance right after __init__, for every base_url argument.
Constructed ==
    \E arg \in CtorArgs, r \in Range(domains) :
        /\ base_url = CtorBaseUrl(arg, r)
        /\ url_builder = CtorBaseUrl(arg, r)
        /\ scraper = FreshScraper
        /\ current_domain_index = CtorIndex(CtorBaseUrl(arg, r))
        /\ ctor_base = CtorBaseUrl(arg, r)
        /\ ctor_arg = arg
        /\ rotated = 0
        /\ op = "none"
        /\ pc = "idle"
        /\ retpc = "idle"
        /\ attempts = 0
        /\ args = [none |-> TRUE]
        /\ outcome = "none"
        /\ ret = NoRet
        /\ fetches = 0
        /\ fetched = {}
        /\ call_rotations = 0
        /\ start_index = CtorIndex(CtorBaseUrl(arg, r))

InitScrape == Constructed /\ ApiIdle /\ ConcIdle /\ AppIdle /\ NormIdle /\ SrvIdle /\ DetIdle /\ FavIdle

\* Custom1337x() with random.choice settling on the first pool entry.
ScrapeIdle ==
    /\ base_url = DomainAt(0)
    /\ url_builder = DomainAt(0)
    /\ scraper = FreshScraper
    /\ current_domain_index = 0
    /\ ctor_base = DomainAt(0)
    /\ ctor_arg = ""
    /\ rotated = 0
    /\ op = "none"
    /\ pc = "idle"
    /\ retpc = "idle"
    /\ attempts = 0
    /\ args = [none |-> TRUE]
    /\ outcome = "none"
    /\ ret = NoRet
    /\ fetches = 0
    /\ fetched = {}
    /\ call_rotations = 0
    /\ start_index = 0

----------------------------------------------------------------------------
(* Custom1337x._rotate_domain, statement by statement *)

callVars == <<op, attempts, args, outcome, ret, fetches, fetched, start_index>>

\* (self.current_domain_index + 1) % len(self.domains)
NextIndex(i) == (i + 1) % K

\* line 64
RotateIndex ==
    /\ pc = "rot_index"
    /\ UNCHANGED scrapeFrame
    /\ current_domain_index' = NextIndex(current_domain_index)
    /\ pc' = "rot_base"
    /\ UNCHANGED <<base_url, url_builder, scraper, retpc, call_rotations, ctor_base,
                   ctor_arg, rotated>>
    /\ UNCHANGED callVars

\* line 65
RotateBase ==
    /\ pc = "rot_base"
    /\ UNCHANGED scrapeFrame
    /\ base_url' = DomainAt(current_domain_index)
    /\ pc' = "rot_builder"
    /\ UNCHANGED <<current_domain_index, url_builder, scraper, retpc, call_rotations,
                   ctor_base, ctor_arg, rotated>>
    /\ UNCHANGED callVars

\* line 66
RotateBuilder ==
    /\ pc = "rot_builder"
    /\ UNCHANGED scrapeFrame
    /\ url_builder' = base_url
    /\ pc' = "rot_scraper"
    /\ UNCHANGED <<current_domain_index, base_url, scraper, retpc, call_rotations,
                   ctor_base, ctor_arg, rotated>>
    /\ UNCHANGED callVars

\* _rotate_domain without lines 68-74: the session is carried over to the new endpoint.
RotateScraperKeepsSession ==
    /\ pc = "rot_scraper"
    /\ UNCHANGED scrapeFrame
    /\ scraper' = scraper
    /\ call_rotations' = call_rotations + 1
    /\ rotated' = IF op = "rotate" THEN Min(rotated + 1, K + 1) ELSE rotated
    /\ pc' = retpc
    /\ UNCHANGED <<current_domain_index, base_url, url_builder, retpc, ctor_base, ctor_arg>>
    /\ UNCHANGED callVars

\* lines 68-75: the new scraper, then the return to the caller.
RotateScraper ==
    /\ pc = "rot_scraper"
    /\ UNCHANGED scrapeFrame
    /\ scraper' = FreshScraper
    /\ call_rotations' = call_rotations + 1
    /\ rotated' = IF op = "rotate" THEN Min(rotated + 1, K + 1) ELSE rotated
    /\ pc' = retpc
    /\ UNCHANGED <<current_domain_index, base_url, url_builder, retpc, ctor_base, ctor_arg>>
    /\ UNCHANGED callVars

\* A caller calls _rotate_domain directly on an idle instance.
RotateCall ==
    /\ pc = "idle"
    /\ UNCHANGED scrapeFrame
    /\ op' = "rotate"
    /\ pc' = "rot_index"
    /\ retpc' = "idle"
    /\ args' = [none |-> TRUE]
    /\ attempts' = 0
    /\ outcome' = "none"
    /\ ret' = NoRet
    /\ fetches' = 0
    /\ fetched' = {}
    /\ call_rotations' = 0
    /\ start_index' = current_domain_index
    /\ UNCHANGED <<base_url, url_builder, scraper, current_domain_index, ctor_base,
                   ctor_arg, rotated>>

----------------------------------------------------------------------------
(* Custom1337x.search *)

\* Largest number of items a parsed listing page carries in the model.
MaxItems == 2

\* What one pass through the try block (lines 94-114) can meet:
\*   transport_exc  scraper.get raises                          -> except, line 115
\*   non200         response.status_code != 200                 -> line 114
\*   no_links       200, soup.select('a[href*="/torrent/"]') is empty -> line 112
\*   parser_exc     parser.torrent_parser raises                -> except, line 115
\*   empty_items    parser.torrent_parser returns a result without items -> line 112
\*   items          parser.torrent_parser returns n > 0 items   -> return, line 110

\* A handler that names one exception class only.
ExceptValueErrorOnly(e) == e = "ValueError"

\* `except Exception as e` (lines 115, 173, 178): catches every exception class
\* raised inside the try blocks (ValueError, TransportError, ParserError).
ExceptException(e) == TRUE

\* models.TorrentResult(items=[], current_page=page, item_count=0, page_count=1), line 126
EmptyResult == [kind |-> "TorrentResult", items |-> <<>>, item_count |-> 0, page_count |-> 1]

\* The TorrentResult parser.torrent_parser builds from a page with n items.
ParsedResult(n, b) ==
    [kind |-> "TorrentResult", items |-> [i \in 1..n |-> [url |-> b, n |-> i]],
     item_count |-> n, page_count |-> 1]

Raised(e) == [kind |-> "raised", exc |-> e]

\* search(query, ...) is called on an idle instance. Lines 88-91: the query and the
\* category are sanitised (no state is touched) and attempts starts at 0.
SearchCall ==
    /\ pc = "idle"
    /\ UNCHANGED scrapeFrame
    /\ args' = [none |-> TRUE]
    /\ op' = "search"
    /\ attempts' = 0
    /\ pc' = "s_while"
    /\ outcome' = "none"
    /\ ret' = NoRet
    /\ fetches' = 0
    /\ fetched' = {}
    /\ call_rotations' = 0
    /\ start_index' = current_domain_index
    /\ rotated' = K + 1
    /\ UNCHANGED <<base_url, url_builder, scraper, current_domain_index, retpc,
                   ctor_base, ctor_arg>>

\* while attempts < self.max_retries (line 93); lines 125-126 when the loop is over
SearchWhile ==
    /\ pc = "s_while"
    /\ UNCHANGED scrapeFrame
    /\ IF attempts < max_retries
       THEN /\ pc' = "s_try"
            /\ UNCHANGED <<op, ret>>
       ELSE /\ pc' = "idle"
            /\ ret' = EmptyResult
            /\ UNCHANGED op
    /\ outcome' = IF attempts < max_retries THEN "none" ELSE "exhausted"
    /\ UNCHANGED <<base_url, url_builder, scraper, current_domain_index, retpc, attempts,
                   args, fetches, fetched, call_rotations, ctor_base, ctor_arg, rotated,
                   start_index>>

\* The handling of an exception e raised inside the try block of search at line 94.
SearchExcept(e, o) ==
    IF ExceptException(e)
    THEN /\ outcome' = o
         /\ pc' = "rot_index"
         /\ retpc' = "s_after"
         /\ UNCHANGED <<op, ret>>
    ELSE /\ outcome' = o
         /\ pc' = "idle"
         /\ ret' = Raised(e)
         /\ UNCHANGED <<op, retpc>>

\* Falling out of the try block without a return: on to line 119.
SearchFallThrough(o) ==
    /\ outcome' = o
    /\ pc' = "rot_index"
    /\ retpc' = "s_after"
    /\ UNCHANGED <<op, ret>>

\* The result handed back only at the bottom of the loop body, after the rotation.
SearchReturnAfterRotation(n) ==
    /\ outcome' = "items"
    /\ pc' = "rot_index"
    /\ retpc' = "idle"
    /\ ret' = ParsedResult(n, base_url)
    /\ UNCHANGED op

\* lines 108-110: a parsed result with items is returned at once.
SearchReturn(n) ==
    /\ outcome' = "items"
    /\ pc' = "idle"
    /\ ret' = ParsedResult(n, base_url)
    /\ UNCHANGED <<op, retpc>>

\* The try block, lines 94-116: build the URL for the builder's endpoint (line 96,
\* which only formats the sanitised arguments into an address), fetch it through
\* the scraper (line 100), look at the answer.
SearchTry ==
    /\ pc = "s_try"
    /\ UNCHANGED scrapeFrame
    /\ scraper' = scraper \cup {url_builder}
    /\ fetches' = fetches + 1
    /\ fetched' = fetched \cup {url_builder}
    /\ \/ SearchExcept("TransportError", "transport_exc")
       \/ SearchFallThrough("non200")
       \/ SearchFallThrough("no_links")
       \/ SearchExcept("ParserError", "parser_exc")
       \/ \E n \in 0..MaxItems :
             IF n > 0 THEN SearchReturn(n) ELSE SearchFallThrough("empty_items")
    /\ UNCHANGED <<base_url, url_builder, current_domain_index, attempts, args,
                   call_rotations, ctor_base, ctor_arg, rotated, start_index>>

\* lines 120-122, after self._rotate_domain() at line 119 has returned
SearchAfter ==
    /\ pc = "s_after"
    /\ UNCHANGED scrapeFrame
    /\ attempts' = attempts + 1
    /\ pc' = "s_while"
    /\ UNCHANGED <<base_url, url_builder, scraper, current_domain_index, op, retpc, args,
                   outcome, ret, fetches, fetched, call_rotations, ctor_base, ctor_arg, rotated,
                   start_index>>


----------------------------------------------------------------------------
(* Custom1337x.info *)

\* The attributes of py1337x models.TorrentInfo, as the constructor call at
\* lines 191-211 names them.
InfoFields ==
    {"name", "short_name", "description", "category", "type", "genre", "language",
     "size", "thumbnail", "images", "uploader", "uploader_link", "downloads",
     "last_checked", "date_uploaded", "seeders", "leechers", "magnet_link", "info_hash"}

\* The identifiers a caller may pass: link and torrent_id are Optional[str].
LinkArgs == {NoneVal, "/torrent/12345/some-name/"}

TorrentIdArgs == {NoneVal, "", "12345"}

\* The magnet_link values parser.info_parser may leave in the record it returns.
MagnetValues == {NoneVal, "", "magnet:?xt=urn:btih:abc"}

\* setattr(obj, name, value)
SetAttr(obj, name, value) ==
    [f \in (DOMAIN obj) \cup {name} |-> IF f = name THEN value ELSE obj[f]]

\* The record parser.info_parser returns for a detail page whose magnet block
\* holds m: the other attributes are whatever the page carried.
ParsedInfo(m) ==
    [f \in InfoFields |-> IF f = "magnet_link" THEN m ELSE "<parsed " \o f \o ">"]

\* models.TorrentInfo(name="Unable to retrieve details", ...), lines 191-211
MinimalInfo ==
    [f \in InfoFields |->
        CASE f = "name" -> "Unable to retrieve details"
          [] f = "description" ->
                "Torrent details could not be retrieved from any available domains."
          [] OTHER -> NoneVal]

\* The attribute set whatever the identifier is.
TagTorrentIdAlways(obj, torrent_id) == SetAttr(obj, "torrent_id", torrent_id)

\* `if torrent_id: setattr(result, 'torrent_id', torrent_id)`, lines 169-171 and 214-215
TagTorrentId(obj, torrent_id) ==
    IF Truthy(torrent_id) THEN SetAttr(obj, "torrent_id", torrent_id) ELSE obj

InfoValue(obj) == [kind |-> "TorrentInfo", attrs |-> obj]

\* `if result.magnet_link:` line 167
HasEssentialFields(result) == Truthy(result["magnet_link"])

\* info(link, torrent_id) is called on an idle instance. build_fails: whether
\* url_builder.build_info_url raises or yields an empty URL for these arguments
\* (lines 141-143); like build_search_url it does not depend on the endpoint.
InfoCall ==
    /\ pc = "idle"
    /\ UNCHANGED scrapeFrame
    /\ \E l \in LinkArgs, t \in TorrentIdArgs, bf \in BOOLEAN :
          args' = [link |-> l, torrent_id |-> t, build_fails |-> bf]
    /\ op' = "info"
    /\ attempts' = 0
    /\ pc' = "i_while"
    /\ outcome' = "none"
    /\ ret' = NoRet
    /\ fetches' = 0
    /\ fetched' = {}
    /\ call_rotations' = 0
    /\ start_index' = current_domain_index
    /\ rotated' = K + 1
    /\ UNCHANGED <<base_url, url_builder, scraper, current_domain_index, retpc,
                   ctor_base, ctor_arg>>

\* while attempts < self.max_retries (line 134); lines 187-217 when the loop is over
InfoWhile ==
    /\ pc = "i_while"
    /\ UNCHANGED scrapeFrame
    /\ IF attempts < max_retries
       THEN /\ pc' = "i_try"
            /\ UNCHANGED <<op, ret>>
       ELSE /\ pc' = "idle"
            /\ UNCHANGED op
            /\ ret' = InfoValue(TagTorrentId(MinimalInfo, args.torrent_id))
    /\ outcome' = IF attempts < max_retries THEN "none" ELSE "exhausted"
    /\ UNCHANGED <<base_url, url_builder, scraper, current_domain_index, retpc, attempts,
                   args, fetches, fetched, call_rotations, ctor_base, ctor_arg, rotated,
                   start_index>>

\* The handling of an exception e raised inside the try block of info at line 135.
InfoExcept(e, o) ==
    IF ExceptException(e)
    THEN /\ outcome' = o
         /\ pc' = "rot_index"
         /\ retpc' = "i_after"
         /\ UNCHANGED <<op, ret>>
    ELSE /\ outcome' = o
         /\ pc' = "idle"
         /\ ret' = Raised(e)
         /\ UNCHANGED <<op, retpc>>

\* Reaching line 177, then line 182: the rotation shared by the failing branches.
InfoFallThrough(o) ==
    /\ outcome' = o
    /\ pc' = "rot_index"
    /\ retpc' = "i_after"
    /\ UNCHANGED <<op, ret>>

\* The marker-less answer counted as an attempt without the rotation.
InfoNoMarkerNoRotation ==
    /\ outcome' = "no_marker"
    /\ pc' = "i_continue"
    /\ UNCHANGED <<op, ret, retpc>>

\* lines 156-160: a 200 answer without the box-info-heading marker rotates and
\* continues from inside the try block.
InfoNoMarker ==
    /\ outcome' = "no_marker"
    /\ pc' = "rot_index"
    /\ retpc' = "i_continue"
    /\ UNCHANGED <<op, ret>>

\* lines 163-174: the parsed record is returned only with a magnet link; an
\* exception of the parser is caught at line 173.
InfoParsed(m) ==
    IF HasEssentialFields(ParsedInfo(m))
    THEN /\ outcome' = "details"
         /\ pc' = "idle"
         /\ ret' = InfoValue(TagTorrentId(ParsedInfo(m), args.torrent_id))
         /\ UNCHANGED <<op, retpc>>
    ELSE InfoFallThrough("no_magnet")

\* The argument check left out: every call goes on to build its URL.
NoIdentifierUnchecked(a) == FALSE

\* `if link is None and torrent_id is None:` line 138
NoIdentifier(a) == a.link = NoneVal /\ a.torrent_id = NoneVal

\* The try block, lines 135-179: the argument check and the URL (lines 137-143),
\* the fetch through the scraper (line 148), the look at the answer.
InfoTry ==
    /\ pc = "i_try"
    /\ UNCHANGED scrapeFrame
    /\ IF NoIdentifier(args)
       THEN /\ InfoExcept("ValueError", "no_args")
            /\ UNCHANGED <<scraper, fetches, fetched>>
       ELSE IF args.build_fails
       THEN /\ InfoExcept("ValueError", "build_exc")
            /\ UNCHANGED <<scraper, fetches, fetched>>
       ELSE /\ scraper' = scraper \cup {url_builder}
            /\ fetches' = fetches + 1
            /\ fetched' = fetched \cup {url_builder}
            /\ \/ InfoExcept("TransportError", "transport_exc")
               \/ InfoFallThrough("non200")
               \/ InfoNoMarker
               \/ IF ExceptException("ParserError")
                  THEN InfoFallThrough("parser_exc")
                  ELSE InfoExcept("ParserError", "parser_exc")
               \/ \E m \in MagnetValues : InfoParsed(m)
    /\ UNCHANGED <<base_url, url_builder, current_domain_index, attempts, args,
                   call_rotations, ctor_base, ctor_arg, rotated, start_index>>

\* lines 183-185, after self._rotate_domain() at line 182 has returned
InfoAfter ==
    /\ pc = "i_after"
    /\ UNCHANGED scrapeFrame
    /\ attempts' = attempts + 1
    /\ pc' = "i_while"
    /\ UNCHANGED <<base_url, url_builder, scraper, current_domain_index, op, retpc, args,
                   outcome, ret, fetches, fetched, call_rotations, ctor_base, ctor_arg, rotated,
                   start_index>>

\* lines 159-160, after self._rotate_domain() at line 158 has returned
InfoContinue ==
    /\ pc = "i_continue"
    /\ UNCHANGED scrapeFrame
    /\ attempts' = attempts + 1
    /\ pc' = "i_while"
    /\ UNCHANGED <<base_url, url_builder, scraper, current_domain_index, op, retpc, args,
                   outcome, ret, fetches, fetched, call_rotations, ctor_base, ctor_arg, rotated,
                   start_index>>

----------------------------------------------------------------------------
(* The direct-scrape backend in sequential use *)

\* A step inside a call that has been made.
ScrapeStep ==
    \/ RotateIndex
    \/ RotateBase
    \/ RotateBuilder
    \/ RotateScraper
    \/ SearchWhile
    \/ SearchTry
    \/ SearchAfter
    \/ InfoWhile
    \/ InfoTry
    \/ InfoAfter
    \/ InfoContinue

NextScrape ==
    \/ RotateCall
    \/ SearchCall
    \/ InfoCall
    \/ ScrapeStep

SpecScrape == InitScrape /\ [][NextScrape]_vars

\* A call that has been made keeps running: Python executes the next statement.
SpecScrapeFair == SpecScrape /\ WF_vars(ScrapeStep)


----------------------------------------------------------------------------
(* Custom1337x shared by threads.  The class holds no lock, so the threads'   *)
(* steps interleave wherever the interpreter may switch threads: between the  *)
(* load of an attribute and the store that uses the loaded value.             *)

\* Failing attempts each thread is followed through.
MaxConcAttempts == 2

concFrame == <<apiVars, appVars, detVars, favVars,
               srvVars,
               normVars,
               op, pc, retpc, attempts, args, outcome, ret, fetches, fetched,
               call_rotations, ctor_base, ctor_arg, rotated, start_index>>

\* Thread t moves to position p.
Goto(t, p) == c_pc' = [c_pc EXCEPT ![t] = p]

\* Thread t calls search: lines 88-93, attempts = 0.
ConcCall(t) ==
    /\ c_pc[t] = "c_idle"
    /\ UNCHANGED concFrame
    /\ Goto(t, "c_build")
    /\ UNCHANGED <<base_url, url_builder, scraper, current_domain_index, c_attempts,
                   c_reg, c_url, c_rotations, scraper_for, last_fetch>>

\* line 96: the URL is built by the builder that self.url_builder holds now.
ConcBuild(t) ==
    /\ c_pc[t] = "c_build"
    /\ UNCHANGED concFrame
    /\ c_url' = [c_url EXCEPT ![t] = url_builder]
    /\ Goto(t, "c_fetch")
    /\ UNCHANGED <<base_url, url_builder, scraper, current_domain_index, c_attempts,
                   c_reg, c_rotations, scraper_for, last_fetch>>

\* line 100: the URL is fetched through the session that self.scraper holds now;
\* lines 102-116: the attempt returns a result, or fails and goes to line 119.
ConcFetch(t) ==
    /\ c_pc[t] = "c_fetch"
    /\ UNCHANGED concFrame
    /\ last_fetch' = [kind |-> "fetch", url |-> c_url[t], used |-> scraper,
                      created_for |-> scraper_for]
    /\ scraper' = scraper \cup {c_url[t]}
    /\ \/ Goto(t, "c_done")
       \/ Goto(t, "r64_load")
    /\ UNCHANGED <<base_url, url_builder, current_domain_index, c_attempts, c_reg, c_url,
                   c_rotations, scraper_for>>

\* line 64, the load of self.current_domain_index
Rotate64Load(t) ==
    /\ c_pc[t] = "r64_load"
    /\ UNCHANGED concFrame
    /\ c_reg' = [c_reg EXCEPT ![t] = current_domain_index]
    /\ Goto(t, "r64_store")
    /\ UNCHANGED <<base_url, url_builder, scraper, current_domain_index, c_attempts,
                   c_url, c_rotations, scraper_for, last_fetch>>

\* line 64, the store of the incremented value
Rotate64Store(t) ==
    /\ c_pc[t] = "r64_store"
    /\ UNCHANGED concFrame
    /\ current_domain_index' = NextIndex(c_reg[t])
    /\ Goto(t, "r65_load")
    /\ UNCHANGED <<base_url, url_builder, scraper, c_attempts, c_reg, c_url, c_rotations,
                   scraper_for, last_fetch>>

\* line 65, the load of self.domains[self.current_domain_index]
Rotate65Load(t) ==
    /\ c_pc[t] = "r65_load"
    /\ UNCHANGED concFrame
    /\ c_reg' = [c_reg EXCEPT ![t] = DomainAt(current_domain_index)]
    /\ Goto(t, "r65_store")
    /\ UNCHANGED <<base_url, url_builder, scraper, current_domain_index, c_attempts,
                   c_url, c_rotations, scraper_for, last_fetch>>

\* line 65, the store to self.base_url
Rotate65Store(t) ==
    /\ c_pc[t] = "r65_store"
    /\ UNCHANGED concFrame
    /\ base_url' = c_reg[t]
    /\ Goto(t, "r66_load")
    /\ UNCHANGED <<url_builder, scraper, current_domain_index, c_attempts, c_reg, c_url,
                   c_rotations, scraper_for, last_fetch>>

\* line 66, the load of self.base_url and the construction of the builder
Rotate66Load(t) ==
    /\ c_pc[t] = "r66_load"
    /\ UNCHANGED concFrame
    /\ c_reg' = [c_reg EXCEPT ![t] = base_url]
    /\ Goto(t, "r66_store")
    /\ UNCHANGED <<base_url, url_builder, scraper, current_domain_index, c_attempts,
                   c_url, c_rotations, scraper_for, last_fetch>>

\* line 66, the store to self.url_builder
Rotate66Store(t) ==
    /\ c_pc[t] = "r66_store"
    /\ UNCHANGED concFrame
    /\ url_builder' = c_reg[t]
    /\ Goto(t, "r68")
    /\ UNCHANGED <<base_url, scraper, current_domain_index, c_attempts, c_reg, c_url,
                   c_rotations, scraper_for, last_fetch>>

\* lines 68-74: the new scraper, made by the call that has just built the builder
\* for c_reg[t]; then lines 120-122 and the loop test of line 93.
Rotate68(t) ==
    /\ c_pc[t] = "r68"
    /\ UNCHANGED concFrame
    /\ scraper' = FreshScraper
    /\ scraper_for' = c_reg[t]
    /\ c_rotations' = c_rotations + 1
    /\ c_attempts' = [c_attempts EXCEPT ![t] = c_attempts[t] + 1]
    /\ IF c_attempts[t] + 1 < Min(max_retries, MaxConcAttempts)
       THEN Goto(t, "c_build")
       ELSE Goto(t, "c_done")
    /\ UNCHANGED <<base_url, url_builder, current_domain_index, c_reg, c_url, last_fetch>>

ConcStep(t) ==
    \/ ConcCall(t)
    \/ ConcBuild(t)
    \/ ConcFetch(t)
    \/ Rotate64Load(t)
    \/ Rotate64Store(t)
    \/ Rotate65Load(t)
    \/ Rotate65Store(t)
    \/ Rotate66Load(t)
    \/ Rotate66Store(t)
    \/ Rotate68(t)

InitConc == Constructed /\ ApiIdle /\ ConcIdle /\ AppIdle /\ NormIdle /\ SrvIdle /\ DetIdle /\ FavIdle

NextConc == \E t \in Threads : ConcStep(t)

SpecConc == InitConc /\ [][NextConc]_vars

----------------------------------------------------------------------------
(* JSON values of the aggregator's answer *)

\* A key that the JSON object does not hold, and the values it may hold.
JAbsent == [t |-> "absent"]

JNull == [t |-> "null"]

JInt(n) == [t |-> "int", n |-> n]

JStr(x) == [t |-> "str", v |-> x]

JList(l) == [t |-> "list", items |-> l]

\* dict.get(key, default): the default only when the key is missing; a key that
\* holds null yields None.
Get(d, key, default) == IF d[key] = JAbsent THEN default ELSE d[key]

\* str(v) / f"{v}" of a JSON scalar.
PyStr(v) ==
    CASE v.t = "str" -> v.v
      [] v.t = "int" -> ToString(v.n)
      [] v.t = "null" -> "None"
      [] OTHER -> "<" \o v.t \o ">"

\* "; ".join(msgs)
RECURSIVE Join(_, _)
Join(msgs, sep) ==
    IF msgs = <<>> THEN ""
    ELSE IF Len(msgs) = 1 THEN msgs[1]
    ELSE msgs[1] \o sep \o Join(Tail(msgs), sep)

----------------------------------------------------------------------------
(* TorrentApiClient._format_size and _convert_torrent *)

\* ['B', 'KB', 'MB', 'GB', 'TB'], line 259
SizeUnits == <<"B", "KB", "MB", "GB", "TB">>

TwoDigits(n) == IF n < 10 THEN "0" \o ToString(n) ELSE ToString(n)

\* the divisor of line 262 and the threshold of line 260
Kibi == 1024

\* A byte count is held as its base-1024 numeral, least significant digit first,
\* one digit for each unit from B to PB: the count after k divisions by 1024.0 has
\* the digits above the k-th before the point and the k lowest after it.  Counts
\* below 2^53 and their quotients by powers of 1024 are exact in binary floating
\* point.
NumDigits == Len(SizeUnits) + 1

RECURSIVE Digits(_, _)
Digits(n, count) ==
    IF count = 0 THEN <<>> ELSE <<n % Kibi>> \o Digits(n \div Kibi, count - 1)

\* size_bytes < 1024.0 (line 260) at unit i, after i - 1 divisions
\* Looks one digit too high: stops one unit early.
BelowKibiOffByOne(s, i) == \A j \in (i + 2)..Len(s) : s[j] = 0

BelowKibi(s, i) == \A j \in (i + 1)..Len(s) : s[j] = 0

\* 100 times the fraction 0.frac (digits least significant first): the whole
\* hundredths and the fraction that is left.
RECURSIVE TimesHundred(_, _)
TimesHundred(frac, carry) ==
    IF frac = <<>>
    THEN [hundredths |-> carry, rest |-> <<>>]
    ELSE LET t == Head(frac) * 100 + carry
             higher == TimesHundred(Tail(frac), t \div Kibi)
         IN [hundredths |-> higher.hundredths, rest |-> <<t % Kibi>> \o higher.rest]

\* The fraction 0.rest against one half.
AboveHalf(rest) ==
    /\ rest # <<>>
    /\ \/ rest[Len(rest)] > Kibi \div 2
       \/ rest[Len(rest)] = Kibi \div 2 /\ \E j \in 1..(Len(rest) - 1) : rest[j] # 0

IsHalf(rest) ==
    /\ rest # <<>>
    /\ rest[Len(rest)] = Kibi \div 2
    /\ \A j \in 1..(Len(rest) - 1) : rest[j] = 0

\* f"{size_bytes:.2f} {unit}" for the value whole.frac: two decimals, rounded to
\* nearest, ties to even, what the format does with the exact binary value.
TwoDecimals(whole, frac, unit) ==
    LET m == TimesHundred(frac, 0)
        up == AboveHalf(m.rest) \/ (IsHalf(m.rest) /\ m.hundredths % 2 = 1)
        h == IF up THEN m.hundredths + 1 ELSE m.hundredths
    IN [whole |-> IF h = 100 THEN whole + 1 ELSE whole,
        cents |-> IF h = 100 THEN 0 ELSE h,
        unit |-> unit]

\* The loop of lines 259-263 from unit i on.
RECURSIVE FormatSizeFrom(_, _)
FormatSizeFrom(s, i) ==
    IF i > Len(SizeUnits) THEN TwoDecimals(s[i], SubSeq(s, 1, i - 1), "PB")
    ELSE IF BelowKibi(s, i) THEN TwoDecimals(s[i], SubSeq(s, 1, i - 1), SizeUnits[i])
    ELSE FormatSizeFrom(s, i + 1)

\* The text the format produces.
SizeText(parts) ==
    ToString(parts.whole) \o "." \o TwoDigits(parts.cents) \o " " \o parts.unit

\* _format_size for the byte count with the numeral s
FormatSizeOf(s) == SizeText(FormatSizeFrom(s, 1))

\* _format_size(size_bytes) for a number of the JSON answer
FormatSize(size_bytes) == FormatSizeOf(Digits(size_bytes, NumDigits))

\* Leaves the Z where it is.
ReplaceZKept(x) == x

\* added.replace("Z", "+00:00") on the timestamps of the model: every capital
\* Z, wherever it stands.
ReplaceZ(x) ==
    CASE x = "2024-01-02T03:04:05Z" -> "2024-01-02T03:04:05+00:00"
      [] x = "2024-01-02T03:04:05.123456789Z" -> "2024-01-02T03:04:05.123456789+00:00"
      [] x = "2024-13-01T00:00:00Z" -> "2024-13-01T00:00:00+00:00"
      [] x = "Zulu" -> "+00:00ulu"
      [] OTHER -> x

DateTime(year, month, day, hour, minute) ==
    [year |-> year, month |-> month, day |-> day, hour |-> hour, minute |-> minute]

\* datetime.fromisoformat(x) on the timestamps of the model (Python 3.11); ok is
\* FALSE where it raises ValueError: no date at all, a month 13, a lower-case z,
\* and the two ISO 8601 forms the method does not read, ordinal dates and dates
\* of reduced precision.
FromIsoFormat(x) ==
    CASE x = "2024-01-02T03:04:05+00:00" -> [ok |-> TRUE, dt |-> DateTime(2024, 1, 2, 3, 4)]
      [] x = "2024-01-02T03:04:05.123456789+00:00" ->
             [ok |-> TRUE, dt |-> DateTime(2024, 1, 2, 3, 4)]
      [] x = "2024-01-02T23:59:59+02:00" -> [ok |-> TRUE, dt |-> DateTime(2024, 1, 2, 23, 59)]
      [] x = "2023-12-31" -> [ok |-> TRUE, dt |-> DateTime(2023, 12, 31, 0, 0)]
      [] OTHER -> [ok |-> FALSE]

\* dt.strftime("%Y-%m-%d %H:%M"), for years of four digits
StrfTime(dt) ==
    ToString(dt.year) \o "-" \o TwoDigits(dt.month) \o "-" \o TwoDigits(dt.day) \o " "
        \o TwoDigits(dt.hour) \o ":" \o TwoDigits(dt.minute)

\* lines 215-219: any exception (a non-string has no replace, an unparsable
\* string) ends in "Unknown".
TimeStr(torrent) ==
    LET added == Get(torrent, "added", JStr(""))
    IN IF added.t = "str" /\ FromIsoFormat(ReplaceZ(added.v)).ok
       THEN StrfTime(FromIsoFormat(ReplaceZ(added.v)).dt)
       ELSE "Unknown"

\* lines 230-232
Provider(torrent) ==
    LET provider == Get(torrent, "provider", JStr("Unknown"))
    IN IF provider.t = "list"
       THEN IF provider.items # <<>> THEN provider.items[1] ELSE JStr("Unknown")
       ELSE provider

\* `size_bytes < 1024.0` (line 260) is defined for numbers only: None or a string
\* raises TypeError.
Comparable(v) == v.t = "int"

\* _convert_torrent(torrent), lines 214-247: the Korrent record, or the exception
\* that leaves the method.
ConvertTorrent(torrent) ==
    LET size_bytes == Get(torrent, "size", JInt(0))
        info_hash == Get(torrent, "infoHash", JStr(""))
    IN IF ~Comparable(size_bytes)
       THEN [ok |-> FALSE, exc |-> "TypeError"]
       ELSE [ok |-> TRUE,
             value |->
               [name |-> Get(torrent, "name", JStr("Unknown")),
                size |-> JStr(FormatSize(size_bytes.n)),
                time |-> JStr(TimeStr(torrent)),
                seeders |-> JStr(PyStr(Get(torrent, "seeders", JInt(0)))),
                leechers |-> JStr(PyStr(Get(torrent, "leechers", JInt(0)))),
                torrent_id |-> info_hash,
                magnet_link |-> Get(torrent, "magnet", JStr("")),
                category |-> Get(torrent, "category", JStr("Other")),
                provider |-> Provider(torrent),
                uploader |-> JStr("TorrentApi"),
                url |-> JStr("/torrent/" \o PyStr(info_hash))]]

----------------------------------------------------------------------------
(* _format_size and _convert_torrent applied to one input each *)

normFrame == <<scrapeVars, apiVars, concVars, appVars, srvVars, detVars, favVars>>

\* Digits of the byte counts: the ends of the range, one half, and the digits
\* around 0.995 * 1024, where two decimals round up to the next whole.
DigitSamples == {0, 1, Kibi \div 2, 1018, 1019, Kibi - 1}

\* Whole petabytes of the byte counts, which stay below 2^53.
PetaSamples == {0, 1, 7}

SizeNumerals ==
    {s \in [1..NumDigits -> DigitSamples \cup PetaSamples] :
        /\ \A j \in 1..Len(SizeUnits) : s[j] \in DigitSamples
        /\ s[NumDigits] \in PetaSamples}

\* A caller hands a byte count to _format_size.
InitFormatSize ==
    /\ size_in \in SizeNumerals
    /\ size_out = NotYet
    /\ conv_in = NotYet
    /\ conv_out = NotYet
    /\ ScrapeIdle /\ ApiIdle /\ ConcIdle /\ AppIdle /\ SrvIdle /\ DetIdle /\ FavIdle

\* _format_size, lines 259-263
FormatSizeCall ==
    /\ size_out = NotYet
    /\ size_out' = [kind |-> "formatted", parts |-> FormatSizeFrom(size_in, 1),
                    text |-> FormatSizeOf(size_in)]
    /\ UNCHANGED <<size_in, conv_in, conv_out>>
    /\ UNCHANGED normFrame

NextFormatSize == FormatSizeCall

SpecFormatSize == InitFormatSize /\ [][NextFormatSize]_vars

----------------------------------------------------------------------------
(* TorrentApiClient.search *)

\* Bounds of the answers of the model: records and provider errors per answer.
MaxTorrents == 2

MaxErrors == 2

RawKeys ==
    {"added", "category", "fileCount", "id", "infoHash", "leechers", "name", "seeders",
     "size", "magnet", "provider"}

\* A raw record: the keys in present, the others missing.
Raw(present) == [k \in RawKeys |-> IF k \in DOMAIN present THEN present[k] ELSE JAbsent]

\* The raw records the service sends in the model: a complete one, one with the
\* name only, one whose size is null, one with a provider list, an unparsable
\* timestamp and a null seeders count.
RawSamples ==
    { Raw([added |-> JStr("2024-01-02T03:04:05Z"), category |-> JStr("VIDEO"),
           fileCount |-> JInt(3), id |-> JStr("id1"), infoHash |-> JStr("hash1"),
           leechers |-> JInt(2), name |-> JStr("One Piece 1080p"), seeders |-> JInt(10),
           size |-> JInt(1536), magnet |-> JStr("magnet:?xt=urn:btih:hash1"),
           provider |-> JStr("PIRATEBAY")]),
      Raw([name |-> JStr("Bare")]),
      Raw([added |-> JStr("2023-12-31"), infoHash |-> JStr("hash2"),
           name |-> JStr("No size"), size |-> JNull, provider |-> JStr("YTS")]),
      Raw([added |-> JStr("not a date"), infoHash |-> JStr("hash3"),
           name |-> JStr("Listed"), seeders |-> JNull, size |-> JInt(1048576),
           provider |-> JList(<<JStr("BITSEARCH")>>)]) }

ErrorKeys == {"provider", "error"}

RawError(present) ==
    [k \in ErrorKeys |-> IF k \in DOMAIN present THEN present[k] ELSE JAbsent]

\* The provider errors the service sends in the model.
ErrorSamples ==
    { RawError([provider |-> JStr("YTS"), error |-> JStr("timed out")]),
      RawError([provider |-> JStr("BITSEARCH"), error |-> JStr("HTTP 503")]),
      RawError([error |-> JNull]) }

SeqsUpTo(S, n) == UNION {[1..m -> S] : m \in 0..n}

\* dict.get(key, default)
DictGet(d, key, default) == IF key \in DOMAIN d THEN d[key] ELSE default

\* lines 52-59
category_mapping ==
    ("Any" :> "ALL") @@ ("Movies/TV" :> "VIDEO") @@ ("Music" :> "AUDIO")
    @@ ("Games" :> "GAMES") @@ ("Apps" :> "APPLICATIONS") @@ ("Other" :> "OTHER")

\* lines 62-67
sort_mapping ==
    ("time" :> "ADDED") @@ ("size" :> "SIZE") @@ ("seeders" :> "SEEDERS")
    @@ ("leechers" :> "LEECHERS")

\* lines 70-73
order_mapping == ("desc" :> "DESCENDING") @@ ("asc" :> "ASCENDING")

\* lines 76-80
provider_mapping ==
    ("PirateBay" :> "PIRATEBAY") @@ ("YTS" :> "YTS") @@ ("BitSearch" :> "BITSEARCH")

\* list(provider_mapping.values()), in the order of the dict
provider_values == <<"PIRATEBAY", "YTS", "BITSEARCH">>

\* A providers argument: None, or a list of names.
NoList == [t |-> "none"]

ListOf(l) == [t |-> "list", v |-> l]

\* line 83
ApiCategory(category) ==
    IF Truthy(category) THEN DictGet(category_mapping, category, "ALL") ELSE "ALL"

\* line 84
ApiSort(sort_by) ==
    IF Truthy(sort_by) THEN DictGet(sort_mapping, sort_by, "SEEDERS") ELSE "SEEDERS"

\* An order that is not in the table sent on as it is.
ApiOrderPassThrough(order) == DictGet(order_mapping, order, order)

\* line 85
ApiOrder(order) == DictGet(order_mapping, order, "DESCENDING")

\* [f(p) for p in providers]
MapSeq(f, s) == [i \in DOMAIN s |-> f[s[i]]]

\* Names that are not in the table sent on as they are: line 89 without its filter.
ApiProvidersUnfiltered(providers) ==
    IF providers.t = "list" /\ Len(providers.v) > 0
    THEN [i \in DOMAIN providers.v |-> DictGet(provider_mapping, providers.v[i], providers.v[i])]
    ELSE provider_values

\* lines 88-94
ApiProviders(providers) ==
    IF providers.t = "list" /\ Len(providers.v) > 0
    THEN LET known == SelectSeq(providers.v, LAMBDA p : p \in DOMAIN provider_mapping)
             api_providers == MapSeq(provider_mapping, known)
         IN IF api_providers = <<>> THEN provider_values ELSE api_providers
    ELSE provider_values

\* lines 128-135
Variables(a) ==
    [query |-> a.query,
     category |-> ApiCategory(a.category),
     sort |-> ApiSort(a.sort_by),
     order |-> ApiOrder(a.order),
     providers |-> ApiProviders(a.providers),
     limit |-> 100]

\* Names in one providers argument.
MaxProviders == 2

CategoryArgs == {NoneVal, "", "Anime"} \cup DOMAIN category_mapping

SortArgs == {NoneVal, "", "name"} \cup DOMAIN sort_mapping

OrderArgs == {NoneVal, "random"} \cup DOMAIN order_mapping

ProviderNames == {"Nyaa", "PIRATEBAY"} \cup DOMAIN provider_mapping

ProviderArgs == {NoList} \cup {ListOf(l) : l \in SeqsUpTo(ProviderNames, MaxProviders)}

\* The arguments of search, lines 35-37.
Args(category, sort_by, order, providers) ==
    [query |-> "ubuntu", category |-> category, sort_by |-> sort_by, order |-> order,
     providers |-> providers]

DefaultArgs == Args(NoneVal, NoneVal, "desc", NoList)

SearchArgs ==
    {Args(c, s, o, p) : c \in CategoryArgs, s \in SortArgs, o \in OrderArgs,
                        p \in ProviderArgs}

\* What the one request of a search call can meet:
\*   transport_error   session.post raises a RequestException (connection, timeout)
\*   http_error        raise_for_status raises HTTPError, a RequestException
\*   bad_json          response.json() raises; the class is a RequestException with
\*                     a recent requests, a plain json.JSONDecodeError otherwise
\*   graphql_errors    the body holds a top-level "errors" key
\*   ok                data.searchTorrents holds the torrents and errors lists
Responses ==
    {[kind |-> "transport_error"], [kind |-> "http_error"], [kind |-> "graphql_errors"]}
    \cup {[kind |-> "bad_json", request_exception |-> b] : b \in BOOLEAN}
    \cup {[kind |-> "ok", torrents |-> ts, errors |-> es] :
             ts \in SeqsUpTo(RawSamples, MaxTorrents), es \in SeqsUpTo(ErrorSamples, MaxErrors)}

ApiRaised(msg) == [kind |-> "raised", msg |-> msg]

ApiReturned(list) == [kind |-> "list", value |-> list]

\* lines 161-165: one "provider: error" text per provider error
ErrorMsgs(errors) ==
    [i \in DOMAIN errors |->
        PyStr(Get(errors[i], "provider", JStr("Unknown"))) \o ": "
        \o PyStr(Get(errors[i], "error", JStr("Unknown error")))]

\* Provider errors never raised, only logged.
ProviderErrorsOnlyLogged(torrents, errors) ==
    IF errors # <<>>
    THEN [raise |-> FALSE,
          log |-> <<"Warning: Some providers failed: " \o Join(ErrorMsgs(errors), "; ")>>]
    ELSE [raise |-> FALSE, log |-> <<>>]

\* lines 160-172: with provider errors, a warning is printed when there are
\* records and an exception is raised when there are none.
ProviderErrors(torrents, errors) ==
    IF errors # <<>>
    THEN IF torrents # <<>>
         THEN [raise |-> FALSE,
               log |-> <<"Warning: Some providers failed: "
                          \o Join(ErrorMsgs(errors), "; ")>>]
         ELSE [raise |-> TRUE,
               msg |-> "All providers failed: " \o Join(ErrorMsgs(errors), "; "),
               log |-> <<>>]
    ELSE [raise |-> FALSE, log |-> <<>>]

\* The provider errors handed back after the records.
ReturnedWithErrors(converted, errors) == converted \o errors

\* line 175: the list handed back holds the converted records and nothing else.
Returned(converted, errors) == converted

\* A comprehension that stops after the first record.
ConvertAllTruncated(torrents) ==
    [i \in DOMAIN torrents \cap {1} |-> ConvertTorrent(torrents[i])]

\* [self._convert_torrent(t) for t in torrents]
ConvertAll(torrents) == [i \in DOMAIN torrents |-> ConvertTorrent(torrents[i])]

\* A search that swallows whatever goes wrong and hands back an empty list.
SearchSwallowsFailures(resp) == [ret |-> ApiReturned(<<>>), log |-> <<>>]

\* search(), lines 137-182, on the answer resp: what it returns or raises, and what
\* it prints. Every exception raised inside the try block, the one of line 172
\* included, leaves as Exception("Search failed: ...") (line 182), except the
\* RequestException (line 178) and the JSONDecodeError (line 180).
Search(resp) ==
    CASE resp.kind \in {"transport_error", "http_error"} ->
            [ret |-> ApiRaised("Network error"), log |-> <<>>]
      [] resp.kind = "bad_json" ->
            [ret |-> ApiRaised(IF resp.request_exception THEN "Network error"
                               ELSE "Invalid JSON response"),
             log |-> <<>>]
      [] resp.kind = "graphql_errors" ->
            [ret |-> ApiRaised("Search failed: GraphQL errors"), log |-> <<>>]
      [] resp.kind = "ok" ->
            LET pe == ProviderErrors(resp.torrents, resp.errors)
                conv == ConvertAll(resp.torrents)
                failed == {i \in DOMAIN conv : ~conv[i].ok}
            IN IF pe.raise
               THEN [ret |-> ApiRaised("Search failed: " \o pe.msg), log |-> pe.log]
               ELSE IF failed # {}
               THEN [ret |-> ApiRaised("Search failed: "
                                       \o conv[CHOOSE i \in failed :
                                                 \A j \in failed : i <= j].exc),
                     log |-> pe.log]
               ELSE [ret |-> ApiReturned(Returned([i \in DOMAIN conv |-> conv[i].value],
                                                  resp.errors)),
                     log |-> pe.log]

\* A caller calls search with the arguments a: lines 51-145, up to the one
\* session.post of the call.
PostWith(a) ==
    /\ api_pc = "idle"
    /\ api_pc' = "posted"
    /\ api_args' = a
    /\ api_variables' = Variables(a)
    /\ api_response' = [kind |-> "none"]
    /\ api_ret' = NoRet
    /\ api_log' = <<>>
    /\ api_posts' = 1
    /\ UNCHANGED apiFrame

\* The service answers with one of R (or the transport fails): lines 146-182, to
\* the return or the raise.
AnswerFrom(R) ==
    /\ api_pc = "posted"
    /\ \E resp \in R :
          /\ api_response' = resp
          /\ api_ret' = Search(resp).ret
          /\ api_log' = Search(resp).log
    /\ api_pc' = "idle"
    /\ UNCHANGED <<api_posts, api_args, api_variables>>
    /\ UNCHANGED apiFrame

\* search(query), every other argument at its default.
ApiSearchPost == PostWith(DefaultArgs)

ApiSearchAnswer == AnswerFrom(Responses)

InitApi == ApiIdle /\ ScrapeIdle /\ ConcIdle /\ AppIdle /\ NormIdle /\ SrvIdle /\ DetIdle /\ FavIdle

NextApi ==
    \/ ApiSearchPost
    \/ ApiSearchAnswer

SpecApi == InitApi /\ [][NextApi]_vars

\* The first search on a new client, with every combination of arguments; the
\* client keeps nothing from one call to the next but its session.
ApiSearchPostAny ==
    /\ api_posts = 0
    /\ \E a \in SearchArgs : PostWith(a)

\* The answers that differ in how the call ends, with no record in them.
BriefResponses ==
    {resp \in Responses : resp.kind = "ok" => resp.torrents = <<>> /\ Len(resp.errors) <= 1}

ApiSearchAnswerBrief == AnswerFrom(BriefResponses)

NextApiRequest ==
    \/ ApiSearchPostAny
    \/ ApiSearchAnswerBrief

SpecApiRequest == InitApi /\ [][NextApiRequest]_vars

----------------------------------------------------------------------------
(* _convert_torrent and TorrentInfo applied to one raw record *)

\* The fields _convert_torrent reads (lines 215-246).
ConvertedFields ==
    {"added", "size", "seeders", "leechers", "provider", "infoHash", "magnet", "category",
     "name"}

\* The value of each field of a record of the service that has the field.
FieldValue ==
    [added |-> JStr("2024-01-02T03:04:05Z"), category |-> JStr("VIDEO"),
     fileCount |-> JInt(3), id |-> JStr("id1"), infoHash |-> JStr("hash1"),
     leechers |-> JInt(2), name |-> JStr("One Piece 1080p"), seeders |-> JInt(10),
     size |-> JInt(1536), magnet |-> JStr("magnet:?xt=urn:btih:hash1"),
     provider |-> JStr("PIRATEBAY")]

Presence == {"absent", "null", "value"}

FieldOf(k, presence) ==
    CASE presence = "absent" -> JAbsent
      [] presence = "null" -> JNull
      [] OTHER -> FieldValue[k]

\* The records in which each field of `fields` is independently absent, null or
\* present with its value, and every other field is as `rest` says.
Vary(fields, rest) ==
    {[k \in RawKeys |-> IF k \in fields THEN FieldOf(k, f[k]) ELSE FieldOf(k, rest)] :
        f \in [fields -> Presence]}

\* Other values of a field: timestamps in and out of the forms fromisoformat
\* reads, categories outside and inside the application's names, sizes at the
\* ends of a unit and of another type, provider lists.
OtherValues ==
    {<<"added", JStr(x)>> :
        x \in {"", "not a date", "2024-13-01T00:00:00Z", "2024-01-02T03:04:05z", "2024-002",
               "2024-01", "Zulu", "2024-01-02T03:04:05+00:00",
               "2024-01-02T03:04:05.123456789Z", "2024-01-02T23:59:59+02:00",
               "2023-12-31"}}
    \cup {<<"added", JInt(1704164645)>>}
    \cup {<<"category", JStr(x)>> : x \in {"Anime", "Other", "Video", "ALL", ""}}
    \cup {<<"size", JInt(0)>>, <<"size", JInt(1048575)>>, <<"size", JStr("1.5 GB")>>}
    \cup {<<"seeders", JInt(0)>>, <<"leechers", JStr("12")>>}
    \cup {<<"provider", JList(<<>>)>>, <<"provider", JList(<<JStr("YTS"), JStr("EZTV")>>)>>}

\* The raw records handed to _convert_torrent.
ConvertInputs ==
    Vary(ConvertedFields, "absent")
    \cup Vary({"infoHash", "id", "fileCount", "magnet"}, "value")
    \cup {[r EXCEPT ![p[1]] = p[2]] :
            r \in Vary({"id"}, "value") \cup Vary({"name"}, "absent"), p \in OtherValues}

\* TorrentInfo.__init__(data), lines 340-353: the attributes read from a record
\* that has the keys of DOMAIN data.
TorrentInfoInit(data) ==
    [torrent_id |->
         DictGet(data, "torrent_id", DictGet(data, "infoHash", DictGet(data, "id", JStr("")))),
     name |-> DictGet(data, "name", JStr("Unknown")),
     size |-> DictGet(data, "size", JStr("Unknown")),
     category |-> DictGet(data, "category", JStr("Unknown")),
     provider |-> DictGet(data, "provider", JStr("Unknown")),
     magnet_link |-> DictGet(data, "magnet_link", DictGet(data, "magnet", JStr(""))),
     seeders |-> DictGet(data, "seeders", JStr("0")),
     leechers |-> DictGet(data, "leechers", JStr("0")),
     date_added |-> DictGet(data, "added", DictGet(data, "time", JStr("Unknown"))),
     file_count |-> DictGet(data, "fileCount", JInt(1)),
     uploader |-> DictGet(data, "uploader", JStr("Unknown"))]

\* The service's answer holds one raw record.
InitConvert ==
    /\ conv_in \in ConvertInputs
    /\ conv_out = NotYet
    /\ size_in = NotYet
    /\ size_out = NotYet
    /\ ScrapeIdle /\ ApiIdle /\ ConcIdle /\ AppIdle /\ SrvIdle /\ DetIdle /\ FavIdle

\* _convert_torrent(conv_in), line 175; a record it returns is shown through
\* TorrentInfo (app.py line 562, test_api_client.py line 36).
ConvertCall ==
    /\ conv_out = NotYet
    /\ LET converted == ConvertTorrent(conv_in)
       IN conv_out' =
            IF converted.ok
            THEN [kind |-> "record", value |-> converted.value,
                  info |-> TorrentInfoInit(converted.value)]
            ELSE [kind |-> "raised", exc |-> converted.exc]
    /\ UNCHANGED <<conv_in, size_in, size_out>>
    /\ UNCHANGED normFrame

NextConvert == ConvertCall

SpecConvert == InitConvert /\ [][NextConvert]_vars

----------------------------------------------------------------------------

(* TorrentApp: searching from the main window (app.py).  The GUI thread runs   *)
(* one handler at a time; a SearchWorker runs on a thread of its own and its   *)
(* signals reach the window's slots through the GUI thread's event queue.      *)
(* The status bar texts are left out.                                          *)

\* What the user may have typed into the search box.
Queries == {"", "ubuntu", "debian"}

\* Items in one answer of the aggregator.
MaxResults == 1

\* The dicts of TorrentApiClient._convert_torrent, as far as the window reads them.
Item(torrent_id, name, magnet_link) ==
    [torrent_id |-> torrent_id, name |-> name, magnet_link |-> magnet_link]

ItemSamples == {Item("hash1", "Alpha", ""), Item("", "Beta", "magnet:beta")}

\* One release found at two providers, the first of which gives no magnet link.
SameNamed == <<Item("hash1", "Alpha", ""), Item("hash2", "Alpha", "magnet:hash2")>>

ResultLists == SeqsUpTo(ItemSamples, MaxResults) \cup {SameNamed}

\* The rows of the table are replaced (widgets.py lines 191-197): a selection is
\* lost, itemSelectionChanged (line 363) calls start_display_details, which finds
\* no selected item (lines 504-510).
TableReplaced ==
    IF selected_row # 0
    THEN selected_row' = 0 /\ current_torrent_info' = NoTorrentInfo
    ELSE UNCHANGED detVars

\* the literal of line 786
HistoryLimit == 50

\* update_search_history without the limit of lines 785-787.
UpdateSearchHistoryUnlimited(history, query) ==
    IF query \in Range(history) THEN history ELSE <<query>> \o history

\* update_search_history, lines 781-787
UpdateSearchHistory(history, query) ==
    IF query \in Range(history)
    THEN history
    ELSE LET inserted == <<query>> \o history IN
         IF Len(inserted) > HistoryLimit
         THEN SubSeq(inserted, 1, Len(inserted) - 1)
         ELSE inserted

\* d[key] = value
Put(d, key, value) == [k \in DOMAIN d \cup {key} |-> IF k = key THEN value ELSE d[k]]

\* line 476; the dicts hold neither 'infoHash' nor 'id'
CacheKey(item) == IF Truthy(item.torrent_id) THEN item.torrent_id ELSE item.name

\* lines 477-483, for one item
CacheItem(cache, item) ==
    IF ~Truthy(CacheKey(item))
    THEN cache
    ELSE LET keyed == Put(cache, CacheKey(item), item) IN
         IF Truthy(item.name) /\ item.name # CacheKey(item)
         THEN Put(keyed, item.name, item)
         ELSE keyed

\* lines 475-483, the loop
RECURSIVE CacheItems(_, _)
CacheItems(cache, items) ==
    IF items = <<>>
    THEN cache
    ELSE CacheItems(CacheItem(cache, Head(items)), Tail(items))

\* worker.isRunning(), for self.search_worker
IsRunning(w) == w # 0 /\ w_pc[w] \in {"running", "emitted"}

\* The worker a new SearchWorker(...) becomes.
NewWorker == CHOOSE w \in Workers :
                 w_pc[w] = "unborn" /\ \A v \in Workers : v < w => w_pc[v] # "unborn"

EmptySearchError == [title |-> "Empty Search", message |-> "Please enter a search query."]

\* start_search without the test of lines 445-447.
StartSearchBodyUnchecked(query) ==
    /\ search_history' = UpdateSearchHistory(search_history, query)
    /\ results_table' = <<>>
    /\ table_from' = 0
    /\ search_results_cache' = EmptyDict
    /\ cache_from' = {}
    /\ search_worker' = NewWorker
    /\ w_pc' = [w_pc EXCEPT ![NewWorker] = "running"]
    /\ TableReplaced
    /\ UNCHANGED dialog

\* start_search after _stop_worker has returned: lines 442-470.
StartSearchBody(query) ==
    IF ~Truthy(query)
    THEN /\ dialog' = EmptySearchError
         /\ UNCHANGED <<search_worker, w_pc, results_table, search_results_cache,
                        search_history, table_from, cache_from>>
         /\ UNCHANGED detVars
    ELSE /\ search_history' = UpdateSearchHistory(search_history, query)
         /\ results_table' = <<>>
         /\ table_from' = 0
         /\ search_results_cache' = EmptyDict
         /\ cache_from' = {}
         /\ search_worker' = NewWorker
         /\ w_pc' = [w_pc EXCEPT ![NewWorker] = "running"]
         /\ TableReplaced
         /\ UNCHANGED dialog

\* The user starts a search.  _stop_worker (lines 432-436, called at line 440):
\* quit() ends an event loop that SearchWorker.run does not have, wait() blocks
\* the GUI thread until run has returned.
StartSearch(query) ==
    /\ gui_pc = "loop"
    /\ \E w \in Workers : w_pc[w] = "unborn"
    /\ UNCHANGED appFrame
    /\ UNCHANGED gui_queue
    /\ IF IsRunning(search_worker)
       THEN /\ gui_pc' = "waiting"
            /\ pending_query' = query
            /\ UNCHANGED <<search_worker, w_pc, results_table, search_results_cache,
                           search_history, dialog, table_from, cache_from, superseded>>
            /\ UNCHANGED detVars
       ELSE /\ StartSearchBody(query)
            /\ UNCHANGED <<gui_pc, pending_query, superseded>>

\* worker.wait() returns and start_search goes on.
StartSearchResume ==
    /\ gui_pc = "waiting"
    /\ ~IsRunning(search_worker)
    /\ UNCHANGED appFrame
    /\ UNCHANGED gui_queue
    /\ StartSearchBody(pending_query)
    /\ superseded' = IF Truthy(pending_query)
                     THEN superseded \cup {search_worker}
                     ELSE superseded
    /\ gui_pc' = "loop"
    /\ pending_query' = NoneVal

SearchFinished(w, items) == [signal |-> "search_finished", worker |-> w, items |-> items]

SearchError(w) == [signal |-> "error", worker |-> w, items |-> <<>>]

\* run without line 273: after an exception only the error signal is emitted.
WorkerRunErrorOnly(w) ==
    /\ w_pc[w] = "running"
    /\ UNCHANGED appFrame
    /\ UNCHANGED detVars
    /\ \/ \E items \in ResultLists :
             gui_queue' = Append(gui_queue, SearchFinished(w, items))
       \/ gui_queue' = Append(gui_queue, SearchError(w))
    /\ w_pc' = [w_pc EXCEPT ![w] = "emitted"]
    /\ UNCHANGED <<gui_pc, pending_query, search_worker, results_table,
                   search_results_cache, search_history, dialog, table_from, cache_from,
                   superseded>>

\* SearchWorker.run, lines 255-273: api_client.search returns a list or raises.
WorkerRun(w) ==
    /\ w_pc[w] = "running"
    /\ UNCHANGED appFrame
    /\ UNCHANGED detVars
    /\ \/ \E items \in ResultLists :
             gui_queue' = Append(gui_queue, SearchFinished(w, items))
       \/ gui_queue' = gui_queue \o <<SearchError(w), SearchFinished(w, <<>>)>>
    /\ w_pc' = [w_pc EXCEPT ![w] = "emitted"]
    /\ UNCHANGED <<gui_pc, pending_query, search_worker, results_table,
                   search_results_cache, search_history, dialog, table_from, cache_from,
                   superseded>>

\* run has returned: the thread is finished.
WorkerExit(w) ==
    /\ w_pc[w] = "emitted"
    /\ UNCHANGED appFrame
    /\ UNCHANGED detVars
    /\ w_pc' = [w_pc EXCEPT ![w] = "finished"]
    /\ UNCHANGED <<gui_pc, pending_query, search_worker, gui_queue, results_table,
                   search_results_cache, search_history, dialog, table_from, cache_from,
                   superseded>>

\* update_search_results, lines 472-497, for the signal of worker w
UpdateSearchResults(w, items) ==
    /\ search_results_cache' = CacheItems(search_results_cache, items)
    /\ cache_from' = IF \E i \in DOMAIN items : Truthy(CacheKey(items[i]))
                     THEN cache_from \cup {w}
                     ELSE cache_from
    /\ results_table' = items
    /\ table_from' = IF items = <<>> THEN 0 ELSE w
    /\ TableReplaced
    /\ UNCHANGED dialog

\* update_details_display, line 574, as the slot of details_finished (line 922)
UpdateDetailsDisplay(info) ==
    /\ current_torrent_info' = info
    /\ UNCHANGED <<selected_row, dialog, results_table, search_results_cache, table_from,
                   cache_from>>

\* The event loop delivers the oldest queued signal to the slot connected at
\* lines 467-468 or 922-923.
Deliver ==
    /\ gui_pc = "loop"
    /\ gui_queue # <<>>
    /\ UNCHANGED appFrame
    /\ gui_queue' = Tail(gui_queue)
    /\ IF Head(gui_queue).signal = "search_finished"
       THEN UpdateSearchResults(Head(gui_queue).worker, Head(gui_queue).items)
       ELSE IF Head(gui_queue).signal = "details_finished"
       THEN UpdateDetailsDisplay(Head(gui_queue).items[1])
       ELSE /\ dialog' = [title |-> "Search Error", message |-> "str(e)"]
            /\ UNCHANGED <<results_table, search_results_cache, table_from, cache_from>>
            /\ UNCHANGED detVars
    /\ UNCHANGED <<gui_pc, pending_query, search_worker, w_pc, search_history, superseded>>

\* cached_info.get("magnet_link", cached_info.get("magnet", "")), lines 543 and
\* 554; the dicts hold 'magnet_link'
CachedMagnet(cached_info) == cached_info.magnet_link

\* The magnet link of torrent_info after lines 539-558, "" when the dict has no
\* such key (api_client.py line 346).
DetailsMagnet(cache, row) ==
    LET by_id == IF Truthy(row.torrent_id) /\ row.torrent_id \in DOMAIN cache
                 THEN CachedMagnet(cache[row.torrent_id])
                 ELSE ""
    IN IF ~Truthy(by_id) /\ row.name \in DOMAIN cache
       THEN CachedMagnet(cache[row.name])
       ELSE by_id

\* The user selects a row of the results table: start_display_details, lines
\* 504-566, with one selected item.  No worker is started and no request made.
SelectRow(row) ==
    /\ gui_pc = "loop"
    /\ row \in DOMAIN results_table
    /\ row # selected_row
    /\ selected_row' = row
    /\ current_torrent_info' =
           [torrent_id |-> results_table[row].torrent_id,
            name |-> results_table[row].name,
            magnet_link |-> DetailsMagnet(search_results_cache, results_table[row])]
    /\ UNCHANGED appVars
    /\ UNCHANGED appFrame

HistoryError == [title |-> "History Error", message |-> "Could not save search history."]

\* The user clicks the clear button (line 348): clear_search_history, lines 793-799.
\* save_search_history (lines 772-779) writes the file or, on IOError, shows the
\* error dialog.
ClearSearchHistory ==
    /\ gui_pc = "loop"
    /\ UNCHANGED appFrame
    /\ UNCHANGED detVars
    /\ search_history' = <<>>
    /\ dialog' \in {dialog, HistoryError}
    /\ UNCHANGED <<gui_pc, pending_query, search_worker, w_pc, gui_queue, results_table,
                   search_results_cache, table_from, cache_from, superseded>>

\* A dict of self.favorites, lines 832-841, as far as it is read again.
Favorite(torrentId, name, magnet_link) ==
    [torrentId |-> torrentId, name |-> name, magnet_link |-> magnet_link]

\* TorrentInfo(data) for a dict of self.favorites (api_client.py lines 341-346):
\* the dict has none of the keys 'torrent_id', 'infoHash' and 'id'.
FavoriteInfo(fav) == [torrent_id |-> "", name |-> fav.name, magnet_link |-> fav.magnet_link]

DetailsFinished(info) == [signal |-> "details_finished", worker |-> 0, items |-> <<info>>]

FavoritesError == [title |-> "Favorites Error", message |-> "Could not save favorites."]

RemoveError == [title |-> "Remove Error", message |-> "Please select a favorite to remove."]

\* The selection of the favorites table after populate_favorites (widgets.py
\* lines 278-290) has replaced its items: none, or the row that was selected if
\* the table still has it.
Repopulated(rows) ==
    favorite_row' \in {0} \cup ({favorite_row} \cap (1..Len(rows)))

\* details_finished signals queued and not yet delivered.
MaxPendingDetails == 1

\* The test of line 826 left out.
IsFavoriteNever(torrent_id) == FALSE

\* any(fav['torrentId'] == ... for fav in self.favorites if 'torrentId' in fav), line 826
IsFavorite(torrent_id) == \E i \in DOMAIN favorites : favorites[i].torrentId = torrent_id

\* The user selects a row of the favorites table: start_display_favorite_details,
\* lines 900-926.  The DetailsWorker (lines 283-289) wraps the dict that was found
\* and emits details_finished.
SelectFavorite(row) ==
    /\ gui_pc = "loop"
    /\ Cardinality({i \in DOMAIN gui_queue : gui_queue[i].signal = "details_finished"})
          < MaxPendingDetails
    /\ row \in DOMAIN favorites
    /\ row # favorite_row
    /\ UNCHANGED favFrame
    /\ UNCHANGED detVars
    /\ favorite_row' = row
    /\ LET first == CHOOSE i \in DOMAIN favorites :
                        /\ favorites[i].torrentId = favorites[row].torrentId
                        /\ \A j \in 1..(i - 1) :
                               favorites[j].torrentId # favorites[row].torrentId
       IN gui_queue' = Append(gui_queue, DetailsFinished(FavoriteInfo(favorites[first])))
    /\ UNCHANGED <<gui_pc, pending_query, search_worker, w_pc, results_table,
                   search_results_cache, search_history, dialog, table_from, cache_from,
                   superseded, favorites>>

\* The user clicks one of the add buttons (lines 368 and 382): add_to_favorites,
\* lines 823-852.  save_favorites (lines 809-816) writes the file or shows the
\* error dialog.
AddToFavorites ==
    /\ gui_pc = "loop"
    /\ current_torrent_info # NoTorrentInfo
    /\ UNCHANGED favFrame
    /\ UNCHANGED detVars
    /\ IF ~IsFavorite(current_torrent_info.torrent_id)
       THEN LET id == current_torrent_info.torrent_id
                magnet_link == IF id \in DOMAIN search_results_cache
                               THEN search_results_cache[id].magnet_link
                               ELSE current_torrent_info.magnet_link
                added == Append(favorites,
                                Favorite(id, current_torrent_info.name, magnet_link))
            IN /\ favorites' = added
               /\ Repopulated(added)
               /\ dialog' \in {dialog, FavoritesError}
       ELSE UNCHANGED <<favorites, favorite_row, dialog>>
    /\ UNCHANGED <<gui_pc, pending_query, search_worker, w_pc, gui_queue, results_table,
                   search_results_cache, search_history, table_from, cache_from, superseded>>

\* The user clicks the remove button (line 369): remove_from_favorites, lines
\* 854-875.  Column 5 of the selected row holds the favorite's torrentId.
RemoveFromFavorites ==
    /\ gui_pc = "loop"
    /\ UNCHANGED favFrame
    /\ UNCHANGED detVars
    /\ IF favorite_row = 0
       THEN /\ dialog' = RemoveError
            /\ UNCHANGED <<favorites, favorite_row>>
       ELSE LET torrent_id_to_remove == favorites[favorite_row].torrentId
                kept == SelectSeq(favorites,
                                  LAMBDA fav : fav.torrentId # torrent_id_to_remove)
            IN /\ favorites' = kept
               /\ Repopulated(kept)
               /\ dialog' \in {dialog, FavoritesError}
    /\ UNCHANGED <<gui_pc, pending_query, search_worker, w_pc, gui_queue, results_table,
                   search_results_cache, search_history, table_from, cache_from, superseded>>

InitApp == AppIdle /\ ScrapeIdle /\ ApiIdle /\ ConcIdle /\ NormIdle /\ SrvIdle /\ DetIdle /\ FavIdle

NextApp ==
    \/ \E query \in Queries : StartSearch(query)
    \/ StartSearchResume
    \/ \E w \in Workers : WorkerRun(w)
    \/ \E w \in Workers : WorkerExit(w)
    \/ Deliver
    \/ \E row \in 1..(MaxResults + 1) : SelectRow(row)

\* What load_favorites (lines 800-807, called at line 303) may return: no file,
\* or a file of favorites with pairwise distinct torrentId values.
LoadedFavorites ==
    {<<>>,
     <<Favorite("hash2", "Alpha", "magnet:hash2"), Favorite("", "Gamma", "magnet:gamma")>>}

\* What the user searches for while handling favorites.
FavoriteQueries == {"ubuntu"}

\* The main window after __init__ has loaded a favorites file.
InitFavorites ==
    /\ AppIdle /\ DetIdle
    /\ favorites \in LoadedFavorites
    /\ favorite_row = 0
    /\ ScrapeIdle /\ ApiIdle /\ ConcIdle /\ NormIdle /\ SrvIdle

\* The favorites are handled before, during and after the first search of the
\* session.
NextFavorites ==
    \/ \E query \in FavoriteQueries : search_worker = 0 /\ StartSearch(query)
    \/ \E w \in Workers : WorkerRun(w)
    \/ \E w \in Workers : WorkerExit(w)
    \/ Deliver
    \/ \E row \in 1..(MaxResults + 1) : SelectRow(row)
    \/ \E row \in 1..(MaxResults + 3) : SelectFavorite(row)
    \/ AddToFavorites
    \/ RemoveFromFavorites

SpecFavorites == InitFavorites /\ [][NextFavorites]_vars

\* The i-th entry of a search history file.
HistoryEntry(i) == "query " \o ToString(i)

\* A history file holding the limit's worth of distinct entries.
FullHistory == [i \in 1..HistoryLimit |-> HistoryEntry(i)]

\* What load_search_history (lines 763-770, called at line 302) may return: a
\* history one short of the limit, a history at the limit.  The empty history of a
\* missing file is the one after a clear.
LoadedHistories ==
    {SubSeq(FullHistory, 1, HistoryLimit - 1), FullHistory}

\* What the user types: the newest and the oldest entry of the full file, a
\* query that is in no file.
HistoryQueries == {HistoryEntry(1), HistoryEntry(HistoryLimit), "ubuntu"}

\* The main window after __init__ has loaded a history file.
InitHistory ==
    /\ gui_pc = "loop"
    /\ pending_query = NoneVal
    /\ search_worker = 0
    /\ w_pc = [w \in Workers |-> "unborn"]
    /\ gui_queue = <<>>
    /\ results_table = <<>>
    /\ search_results_cache = EmptyDict
    /\ search_history \in LoadedHistories
    /\ dialog = NoDialog
    /\ table_from = 0
    /\ cache_from = {}
    /\ superseded = {}
    /\ ScrapeIdle /\ ApiIdle /\ ConcIdle /\ NormIdle /\ SrvIdle /\ DetIdle /\ FavIdle

NextHistory ==
    \/ \E query \in HistoryQueries : StartSearch(query)
    \/ StartSearchResume
    \/ \E w \in Workers : WorkerRun(w)
    \/ \E w \in Workers : WorkerExit(w)
    \/ Deliver
    \/ ClearSearchHistory

SpecHistory == InitHistory /\ [][NextHistory]_vars

SpecApp == InitApp /\ [][NextApp]_vars

----------------------------------------------------------------------------
(* TorrentApiClient.test_connection *)

\* self.api_url of the manager (app.py line 29), the base_url of its client
api_url == "http://localhost:8000"

\* The classes an exception raised by session.post is an instance of
\* (requests.exceptions and the builtins).
Bases ==
    [ConnectTimeout |-> {"ConnectTimeout", "ConnectionError", "Timeout", "RequestException",
                         "OSError", "Exception"},
     ConnectionError |-> {"ConnectionError", "RequestException", "OSError", "Exception"},
     SSLError |-> {"SSLError", "ConnectionError", "RequestException", "OSError", "Exception"},
     ReadTimeout |-> {"ReadTimeout", "Timeout", "RequestException", "OSError", "Exception"},
     InvalidURL |-> {"InvalidURL", "RequestException", "OSError", "ValueError", "Exception"},
     TypeError |-> {"TypeError", "Exception"},
     RuntimeError |-> {"RuntimeError", "Exception"}]

\* The status codes of the model: every code of three digits from 100 to 599.
StatusCodes == 100..599

\* What the probe of lines 284-288 may do.
ProbeOutcomes ==
    {[kind |-> "response", status_code |-> c] : c \in StatusCodes}
    \cup {[kind |-> "raised", exc |-> e] : e \in DOMAIN Bases}

\* Reports success whatever the server answered.
StatusOfAnyAnswer(status_code) == "success"

\* lines 290-301
StatusOf(status_code) == IF status_code = 200 THEN "success" ELSE "error"

\* the except clauses of lines 303-326, in their order, with their messages
Handlers ==
    <<[class |-> "ConnectTimeout",
       message |-> "Connection timeout - server may be down or unreachable"],
      [class |-> "ConnectionError", message |-> "Connection error: str(e)"],
      [class |-> "RequestException", message |-> "Network error: str(e)"],
      [class |-> "Exception", message |-> "Unexpected error: str(e)"]>>

Returns(status, message, base) ==
    [kind |-> "returned", value |-> [status |-> status, message |-> message, url |-> base]]

\* The first except clause, from clause i on, that catches exc; none: exc leaves
\* the method.
RECURSIVE Caught(_, _, _)
Caught(exc, i, base) ==
    IF i > Len(Handlers) THEN [kind |-> "raised", exc |-> exc]
    ELSE IF Handlers[i].class \in Bases[exc] THEN Returns("error", Handlers[i].message, base)
    ELSE Caught(exc, i + 1, base)

\* test_connection, lines 272-326, on a client with base_url base
TestConnection(probe, base) ==
    IF probe.kind = "raised" THEN Caught(probe.exc, 1, base)
    ELSE IF StatusOf(probe.status_code) = "success"
    THEN Returns("success", "Successfully connected to TorrentApi server", base)
    ELSE Returns("error", "Server returned status " \o ToString(probe.status_code), base)

srvFrame == <<scrapeVars, apiVars, concVars, appVars, normVars, detVars, favVars>>

managerVars == <<srv_pc, server_executable, temp_dir, process, proc_state, answering, polls,
                 start_ret, started, stop_log>>

ManagerIdle ==
    /\ srv_pc = "idle"
    /\ server_executable = NoneVal
    /\ temp_dir = "none"
    /\ process = NoneVal
    /\ proc_state = [p \in Pids |-> "unborn"]
    /\ answering = {}
    /\ polls = 0
    /\ start_ret = NoneVal
    /\ started = NoneVal
    /\ stop_log = <<>>

\* A client is about to probe its server.
InitTestConnection ==
    /\ probe_in \in ProbeOutcomes
    /\ probe_out = NotYet
    /\ ManagerIdle
    /\ ScrapeIdle /\ ApiIdle /\ ConcIdle /\ AppIdle /\ NormIdle /\ DetIdle /\ FavIdle

\* client.test_connection()
TestConnectionCall ==
    /\ probe_out = NotYet
    /\ probe_out' = TestConnection(probe_in, api_url)
    /\ UNCHANGED probe_in
    /\ UNCHANGED managerVars
    /\ UNCHANGED srvFrame

NextTestConnection == TestConnectionCall

SpecTestConnection == InitTestConnection /\ [][NextTestConnection]_vars

----------------------------------------------------------------------------
(* TorrentApiServerManager (app.py): start_server, stop_server and the server     *)
(* processes.  A spawned process runs by itself: it may begin to answer at       *)
(* api_url, and it may exit.  The printed lines are left out.                    *)

\* range(15), line 184
StartPolls == 15

\* stop_server calls followed after one start_server in the model.
MaxStops == 2

\* is_server_running, lines 138-145: a probe of api_url; whoever answers there
\* answers 200, and nobody answering is a refused connection.
IsServerRunning ==
    LET probe == IF answering # {}
                 THEN [kind |-> "response", status_code |-> 200]
                 ELSE [kind |-> "raised", exc |-> "ConnectionError"]
        result == TestConnection(probe, api_url)
    IN result.kind = "returned" /\ result.value.status = "success"

\* start_server without the test of lines 149-151.
StartServerUnprobed(pid, spawned) ==
    /\ srv_pc = "idle"
    /\ started' = NoneVal
    /\ stop_log' = <<>>
    /\ IF server_executable = NoneVal \/ ~spawned
       THEN /\ start_ret' = "False"
            /\ UNCHANGED <<srv_pc, process, proc_state, polls>>
       ELSE /\ proc_state[pid] = "unborn"
            /\ process' = pid
            /\ proc_state' = [proc_state EXCEPT ![pid] = "running"]
            /\ polls' = 0
            /\ srv_pc' = "start_wait"
            /\ start_ret' = NoneVal
    /\ UNCHANGED <<server_executable, temp_dir, answering, probe_in, probe_out>>
    /\ UNCHANGED srvFrame

\* start_server, lines 149-180: up to the Popen.  spawned is FALSE when Popen
\* raises (line 199).
StartServer(pid, spawned) ==
    /\ srv_pc = "idle"
    /\ started' = NoneVal
    /\ stop_log' = <<>>
    /\ IF IsServerRunning
       THEN /\ start_ret' = "True"
            /\ UNCHANGED <<srv_pc, process, proc_state, polls>>
       ELSE IF server_executable = NoneVal \/ ~spawned
       THEN /\ start_ret' = "False"
            /\ UNCHANGED <<srv_pc, process, proc_state, polls>>
       ELSE /\ proc_state[pid] = "unborn"
            /\ process' = pid
            /\ proc_state' = [proc_state EXCEPT ![pid] = "running"]
            /\ polls' = 0
            /\ srv_pc' = "start_wait"
            /\ start_ret' = NoneVal
    /\ UNCHANGED <<server_executable, temp_dir, answering, probe_in, probe_out>>
    /\ UNCHANGED srvFrame

\* One iteration of the waiting loop, lines 184-191, and the return after the
\* last one, lines 193-197.
StartPoll ==
    /\ srv_pc = "start_wait"
    /\ IF IsServerRunning
       THEN /\ start_ret' = "True"
            /\ started' = process
            /\ srv_pc' = "idle"
            /\ UNCHANGED polls
       ELSE /\ polls' = polls + 1
            /\ UNCHANGED started
            /\ IF polls + 1 = StartPolls
               THEN start_ret' = "False" /\ srv_pc' = "idle"
               ELSE UNCHANGED <<start_ret, srv_pc>>
    /\ UNCHANGED <<server_executable, temp_dir, process, proc_state, answering, stop_log,
                   probe_in, probe_out>>
    /\ UNCHANGED srvFrame

\* lines 225-231
Cleanup(dir) == IF dir = "present" THEN "removed" ELSE dir

\* What one stop_server is remembered by.
Stopped(found_running, changed) == [found_running |-> found_running, changed |-> changed]

\* stop_server, lines 205-208: the process is running and gets terminate();
\* otherwise lines 225-231 only.
StopServer ==
    /\ srv_pc = "idle"
    /\ Len(stop_log) < MaxStops
    /\ IF process # NoneVal /\ proc_state[process] = "running"
       THEN /\ srv_pc' = "stop_wait"
            /\ UNCHANGED <<temp_dir, stop_log>>
       ELSE /\ temp_dir' = Cleanup(temp_dir)
            /\ stop_log' = Append(stop_log, Stopped(FALSE, temp_dir' # temp_dir))
            /\ UNCHANGED srv_pc
    /\ UNCHANGED <<server_executable, process, proc_state, answering, polls, start_ret,
                   started, probe_in, probe_out>>
    /\ UNCHANGED srvFrame

\* Ends the process and forgets to clear self.process.
StopServerKeepsProcess(how) ==
    /\ srv_pc = "stop_wait"
    /\ proc_state' = [proc_state EXCEPT ![process] = how]
    /\ answering' = answering \ {process}
    /\ temp_dir' = Cleanup(temp_dir)
    /\ stop_log' = Append(stop_log, Stopped(TRUE, TRUE))
    /\ srv_pc' = "idle"
    /\ UNCHANGED <<process, server_executable, polls, start_ret, started, probe_in,
                   probe_out>>
    /\ UNCHANGED srvFrame

\* The rest of stop_server, lines 211-231, once the process is no more: it ended
\* `how`, self.process = None in the finally clause, then the cleanup.
StopServerEnds(how) ==
    /\ srv_pc = "stop_wait"
    /\ proc_state' = [proc_state EXCEPT ![process] = how]
    /\ answering' = answering \ {process}
    /\ process' = NoneVal
    /\ temp_dir' = Cleanup(temp_dir)
    /\ stop_log' = Append(stop_log, Stopped(TRUE, TRUE))
    /\ srv_pc' = "idle"
    /\ UNCHANGED <<server_executable, polls, start_ret, started, probe_in, probe_out>>
    /\ UNCHANGED srvFrame

\* wait(timeout=5) returns: the process ended on terminate().
StopGraceful == StopServerEnds("terminated")

\* wait(timeout=5) raises TimeoutExpired: kill() and wait(), lines 215-218.
StopKill == StopServerEnds("killed")

envUnchanged ==
    <<srv_pc, server_executable, temp_dir, process, polls, start_ret, started, stop_log,
      probe_in, probe_out>>

\* A spawned process binds the port and answers, when nobody else holds it.
ProcessListens(pid) ==
    /\ proc_state[pid] = "running"
    /\ answering = {}
    /\ answering' = {pid}
    /\ UNCHANGED proc_state
    /\ UNCHANGED envUnchanged
    /\ UNCHANGED srvFrame

\* A spawned process exits by itself.
ProcessExits(pid) ==
    /\ proc_state[pid] = "running"
    /\ srv_pc # "stop_wait"
    /\ proc_state' = [proc_state EXCEPT ![pid] = "exited"]
    /\ answering' = answering \ {pid}
    /\ UNCHANGED envUnchanged
    /\ UNCHANGED srvFrame

\* A server this application did not start comes up, or goes away.
ExternalServer ==
    /\ \/ answering = {} /\ answering' = {"external"}
       \/ answering = {"external"} /\ answering' = {}
    /\ UNCHANGED proc_state
    /\ UNCHANGED envUnchanged
    /\ UNCHANGED srvFrame

\* The manager after __init__ (lines 28-32): with or without an executable, as a
\* bundled application (temp_dir made, line 45) or from source.
InitServer ==
    /\ server_executable \in {NoneVal, "api-server.exe"}
    /\ temp_dir \in {"none", "present"}
    /\ answering \in {{}, {"external"}}
    /\ srv_pc = "idle"
    /\ process = NoneVal
    /\ proc_state = [p \in Pids |-> "unborn"]
    /\ polls = 0
    /\ start_ret = NoneVal
    /\ started = NoneVal
    /\ stop_log = <<>>
    /\ probe_in = NotYet
    /\ probe_out = NotYet
    /\ ScrapeIdle /\ ApiIdle /\ ConcIdle /\ AppIdle /\ NormIdle /\ DetIdle /\ FavIdle

NextServer ==
    \/ \E pid \in Pids, spawned \in BOOLEAN : StartServer(pid, spawned)
    \/ StartPoll
    \/ StopServer
    \/ StopGraceful
    \/ StopKill
    \/ \E pid \in Pids : ProcessListens(pid)
    \/ \E pid \in Pids : ProcessExits(pid)
    \/ ExternalServer

SpecServer == InitServer /\ [][NextServer]_vars

----------------------------------------------------------------------------
(* The window is closed while the thread of start_torrent_api_server (app.py     *)
(* lines 949-969) is inside start_server.  srv_pc holds two positions here:      *)
(* starter, the daemon thread in start_server, and closer, the GUI thread in     *)
(* closeEvent (lines 756-761) and at the interpreter's exit.                     *)

At(starter, closer) == [starter |-> starter, closer |-> closer]

\* The thread has been started (line 969); the window is open.
InitClose ==
    /\ server_executable \in {NoneVal, "api-server.exe"}
    /\ temp_dir \in {"none", "present"}
    /\ answering \in {{}, {"external"}}
    /\ srv_pc = At("check", "open")
    /\ process = NoneVal
    /\ proc_state = [p \in Pids |-> "unborn"]
    /\ polls = 0
    /\ start_ret = NoneVal
    /\ started = NoneVal
    /\ stop_log = <<>>
    /\ probe_in = NotYet
    /\ probe_out = NotYet
    /\ ScrapeIdle /\ ApiIdle /\ ConcIdle /\ AppIdle /\ NormIdle /\ DetIdle /\ FavIdle

\* The interpreter has not ended the daemon thread.
Alive == srv_pc.closer # "exited"

\* start_server, lines 149-151: the first probe.
ThreadCheck ==
    /\ Alive /\ srv_pc.starter = "check"
    /\ IF IsServerRunning
       THEN start_ret' = "True" /\ srv_pc' = At("returned", srv_pc.closer)
       ELSE UNCHANGED start_ret /\ srv_pc' = At("spawn", srv_pc.closer)
    /\ UNCHANGED <<server_executable, temp_dir, process, proc_state, answering, polls,
                   started, stop_log, probe_in, probe_out>>
    /\ UNCHANGED srvFrame

\* start_server, lines 153-180: no executable, or the Popen, which may raise.
ThreadSpawn(pid, spawned) ==
    /\ Alive /\ srv_pc.starter = "spawn"
    /\ IF server_executable = NoneVal \/ ~spawned
       THEN /\ start_ret' = "False"
            /\ srv_pc' = At("returned", srv_pc.closer)
            /\ UNCHANGED <<process, proc_state>>
       ELSE /\ proc_state[pid] = "unborn"
            /\ process' = pid
            /\ proc_state' = [proc_state EXCEPT ![pid] = "running"]
            /\ srv_pc' = At("wait", srv_pc.closer)
            /\ UNCHANGED start_ret
    /\ UNCHANGED <<server_executable, temp_dir, answering, polls, started, stop_log,
                   probe_in, probe_out>>
    /\ UNCHANGED srvFrame

\* One iteration of the waiting loop, lines 184-191, and lines 193-197 after the
\* last one (self.process.poll() on None raises; line 199 catches it).  started
\* is set where atexit.register(self.stop_server) is called, line 189.
ThreadPoll ==
    /\ Alive /\ srv_pc.starter = "wait"
    /\ IF IsServerRunning
       THEN /\ start_ret' = "True"
            /\ started' = IF process = NoneVal THEN "registered" ELSE process
            /\ srv_pc' = At("returned", srv_pc.closer)
            /\ UNCHANGED polls
       ELSE /\ polls' = polls + 1
            /\ UNCHANGED started
            /\ IF polls + 1 = StartPolls
               THEN start_ret' = "False" /\ srv_pc' = At("returned", srv_pc.closer)
               ELSE UNCHANGED <<start_ret, srv_pc>>
    /\ UNCHANGED <<server_executable, temp_dir, process, proc_state, answering, stop_log,
                   probe_in, probe_out>>
    /\ UNCHANGED srvFrame

\* stop_server up to terminate(), lines 205-208, or all of it when line 205 finds
\* no running process; `then` is where the GUI thread stands afterwards.
StopBegins(from, waiting, then) ==
    /\ srv_pc.closer = from
    /\ IF process # NoneVal /\ proc_state[process] = "running"
       THEN /\ srv_pc' = At(srv_pc.starter, waiting)
            /\ UNCHANGED <<temp_dir, stop_log>>
       ELSE /\ temp_dir' = Cleanup(temp_dir)
            /\ stop_log' = Append(stop_log, Stopped(FALSE, temp_dir' # temp_dir))
            /\ srv_pc' = At(srv_pc.starter, then)
    /\ UNCHANGED <<server_executable, process, proc_state, answering, polls, start_ret,
                   started, probe_in, probe_out>>
    /\ UNCHANGED srvFrame

\* The rest of stop_server, lines 211-231: the process ended `how`.
StopEnds(from, then, how) ==
    /\ srv_pc.closer = from
    /\ proc_state' = [proc_state EXCEPT ![process] = how]
    /\ answering' = answering \ {process}
    /\ process' = NoneVal
    /\ temp_dir' = Cleanup(temp_dir)
    /\ stop_log' = Append(stop_log, Stopped(TRUE, TRUE))
    /\ srv_pc' = At(srv_pc.starter, then)
    /\ UNCHANGED <<server_executable, polls, start_ret, started, probe_in, probe_out>>
    /\ UNCHANGED srvFrame

\* closeEvent, lines 756-761: stop_torrent_api_server calls stop_server.
CloseEvent == StopBegins("open", "close_wait", "closed")

CloseEventEnds(how) == StopEnds("close_wait", "closed", how)

\* The application ends (line 1068): the handler registered at line 189, if the
\* thread got that far, calls stop_server once more; otherwise nothing does.
AtExit ==
    /\ srv_pc.closer = "closed"
    /\ IF started # NoneVal
       THEN StopBegins("closed", "exit_wait", "exited")
       ELSE /\ srv_pc' = At(srv_pc.starter, "exited")
            /\ UNCHANGED <<server_executable, temp_dir, process, proc_state, answering,
                           polls, start_ret, started, stop_log, probe_in, probe_out>>
            /\ UNCHANGED srvFrame

AtExitEnds(how) == StopEnds("exit_wait", "exited", how)

\* A spawned process exits by itself.
ProcessDies(pid) ==
    /\ proc_state[pid] = "running"
    /\ srv_pc.closer \notin {"close_wait", "exit_wait"}
    /\ proc_state' = [proc_state EXCEPT ![pid] = "exited"]
    /\ answering' = answering \ {pid}
    /\ UNCHANGED envUnchanged
    /\ UNCHANGED srvFrame

NextClose ==
    \/ ThreadCheck
    \/ \E pid \in Pids, spawned \in BOOLEAN : ThreadSpawn(pid, spawned)
    \/ ThreadPoll
    \/ CloseEvent
    \/ \E how \in {"terminated", "killed"} : CloseEventEnds(how)
    \/ AtExit
    \/ \E how \in {"terminated", "killed"} : AtExitEnds(how)
    \/ \E pid \in Pids : ProcessListens(pid)
    \/ \E pid \in Pids : ProcessDies(pid)
    \/ ExternalServer

SpecClose == InitClose /\ [][NextClose]_vars

----------------------------------------------------------------------------
(* Properties of the direct-scrape backend *)

\* The latest call was a search / an info call and it has returned.
SearchDone == op = "search" /\ pc = "idle"

InfoDone == op = "info" /\ pc = "idle"

\* The call gave up: it left its while loop with the retry budget used up.
Exhausted == outcome = "exhausted"

\* C1: a search in which no attempt yields items returns the empty result after
\* exactly K = len(domains) passes through the loop body, each followed by one
\* rotation; the attempt counter never exceeds K while the search runs.
C1_EmptyAfterExactlyK ==
    /\ op = "search" => attempts <= K
    /\ (SearchDone /\ outcome # "items") =>
          /\ ret = EmptyResult
          /\ Exhausted
          /\ attempts = K
          /\ fetches = K
          /\ call_rotations = K

\* A search met K failing fetches and returned the empty result.
C1_Witness == SearchDone /\ ret = EmptyResult /\ fetches = K /\ attempts = K

\* C2 (as claimed): when search returns an empty result, every endpoint of the
\* pool has been fetched at least once during the call, however the instance was
\* constructed.
C2_EveryEndpointFetched ==
    (SearchDone /\ ret.kind = "TorrentResult" /\ ret.items = <<>>) =>
        Range(domains) \subseteq fetched

\* C3: a search returns at the first attempt that yields items: the number of
\* fetches is the number of failed attempts plus one and at most K, no rotation
\* follows the successful fetch, and the cursor, the active endpoint and the URL
\* builder still describe the endpoint the items came from.
C3_ReturnsAtFirstSuccess ==
    (SearchDone /\ outcome = "items") =>
        /\ ret.kind = "TorrentResult"
        /\ ret.items # <<>>
        /\ fetches = attempts + 1
        /\ fetches <= K
        /\ call_rotations = attempts
        /\ current_domain_index = (start_index + attempts) % K
        /\ url_builder = base_url
        /\ base_url \in fetched
        /\ scraper = {base_url}
        /\ \A i \in DOMAIN ret.items : ret.items[i].url = base_url

\* A search succeeded on its third attempt.
C3_Witness == SearchDone /\ outcome = "items" /\ attempts = 2 /\ fetches = 3

\* C4 (as claimed): after exactly K direct _rotate_domain calls in sequence on a
\* constructed instance, the active endpoint is again the one active at construction.
C4_KRotationsReturnToStart ==
    (pc = "idle" /\ rotated = K) => base_url = ctor_base

\* The placeholder's descriptive fields other than the two messages.
PlaceholderNoneFields == InfoFields \ {"name", "description"}

\* The identifier the caller asked for: the torrent_id, or the link when no
\* torrent_id was given.
RequestedIdentifier == IF args.torrent_id # NoneVal THEN args.torrent_id ELSE args.link

C9_InfoAttemptAccounting ==
    /\ (InfoDone /\ ~Exhausted /\ ret.kind = "TorrentInfo") =>
          /\ outcome = "details"
          /\ Truthy(ret.attrs["magnet_link"])
    /\ (op = "info" /\ pc \in {"i_while", "i_try", "idle"}) =>
          /\ attempts <= K
          /\ call_rotations = attempts
          /\ current_domain_index = (start_index + attempts) % K
    /\ (op = "info" /\ pc \in {"i_after", "i_continue"}) =>
          /\ attempts < K
          /\ call_rotations = attempts + 1
          /\ current_domain_index = (start_index + attempts + 1) % K
    /\ (op = "info" /\ pc = "i_after") =>
          outcome \in {"no_args", "build_exc", "transport_exc", "non200", "parser_exc",
                       "no_magnet"}
    /\ (op = "info" /\ pc = "i_continue") => outcome = "no_marker"

\* The third attempt of an info call met a page without the detail-heading marker
\* and has rotated once.
C9_Witness ==
    /\ op = "info" /\ pc = "i_continue" /\ outcome = "no_marker"
    /\ attempts = 2 /\ call_rotations = 3 /\ fetches = 3

\* C10: search and info never raise to the caller, whatever the attempts meet,
\* and every call that was made returns (under SpecScrapeFair: a running call
\* keeps executing).
C10_NeverRaisesAndReturns ==
    /\ [](ret.kind # "raised")
    /\ [](pc # "idle" => <>(pc = "idle"))

\* An info call whose attempts all ended in exceptions returned the placeholder.
C10_Witness ==
    /\ InfoDone /\ Exhausted /\ ret.kind = "TorrentInfo"
    /\ args.link = NoneVal /\ args.torrent_id = "" /\ args.build_fails

\* C36: info called with neither link nor torrent_id does not raise; the argument
\* error is handled like a failed fetch: no attempt of the call issues a fetch,
\* each of them is followed by one rotation, and the call returns, after K
\* attempts and K rotations, the placeholder record, which has no torrent_id
\* attribute.
C36_NoIdentifierIsAFailedFetch ==
    (op = "info" /\ args.link = NoneVal /\ args.torrent_id = NoneVal) =>
        /\ fetches = 0
        /\ fetched = {}
        /\ ret.kind # "raised"
        /\ outcome \in {"none", "no_args", "exhausted"}
        /\ InfoDone =>
              /\ Exhausted
              /\ attempts = K
              /\ call_rotations = K
              /\ current_domain_index = (start_index + K) % K
              /\ ret = InfoValue(MinimalInfo)
              /\ "torrent_id" \notin DOMAIN ret.attrs

\* info(None, None) has returned.
C36_Witness ==
    /\ InfoDone /\ args.link = NoneVal /\ args.torrent_id = NoneVal
    /\ attempts = K /\ call_rotations = K /\ fetches = 0
    /\ ret.kind = "TorrentInfo"


----------------------------------------------------------------------------
(* Properties of the aggregator backend *)

\* The latest search call is over, and the service had answered it with a torrents
\* list and an errors list.
Answered == api_pc = "idle" /\ api_response.kind = "ok"

\* Some providers failed and some delivered: both lists are non-empty.
PartialFailure ==
    /\ Answered
    /\ api_response.torrents # <<>>
    /\ api_response.errors # <<>>

\* The text of the warning / of the exception for the provider errors of the answer.
ProviderErrorText == Join(ErrorMsgs(api_response.errors), "; ")

\* The entries of a returned list that are provider errors (they carry an error
\* message), as opposed to torrent records.
ProviderErrorsIn(list) == {list[j] : j \in {i \in DOMAIN list : "error" \in DOMAIN list[i]}}

\* C5: with an empty torrents list, search raises the all-providers-failed error
\* when the errors list is non-empty, and returns the empty list, printing
\* nothing, when the errors list is empty too.
C5_EmptyTorrentsDecision ==
    (Answered /\ api_response.torrents = <<>>) =>
        IF api_response.errors # <<>>
        THEN api_ret = ApiRaised("Search failed: All providers failed: " \o ProviderErrorText)
        ELSE api_ret = ApiReturned(<<>>) /\ api_log = <<>>

\* search raised for an answer without records and with two provider errors.
C5_Witness ==
    /\ Answered
    /\ api_response.torrents = <<>>
    /\ Len(api_response.errors) = 2
    /\ api_ret.kind = "raised"

\* C6 (as claimed): with a non-empty torrents list and a non-empty errors list,
\* search returns the converted records, one per torrent, and does not raise.
C6_PartialFailureReturns ==
    PartialFailure =>
        /\ api_ret.kind = "list"
        /\ Len(api_ret.value) = Len(api_response.torrents)

\* C7 (as claimed): on a partial failure the value search hands back carries
\* every provider error of the answer, with its provider and its message.
C7_ValueCarriesProviderErrors ==
    (PartialFailure /\ api_ret.kind = "list") =>
        \A i \in DOMAIN api_response.errors :
            api_response.errors[i] \in ProviderErrorsIn(api_ret.value)

\* C7 (amended): on a partial failure the value search hands back is the list of
\* converted records alone, one per torrent and no provider error among them; the
\* provider errors (provider and message of each) are only printed, in one warning.
C7_ProviderErrorsOnlyPrinted ==
    (PartialFailure /\ api_ret.kind = "list") =>
        /\ ProviderErrorsIn(api_ret.value) = {}
        /\ Len(api_ret.value) = Len(api_response.torrents)
        /\ api_log = <<"Warning: Some providers failed: " \o ProviderErrorText>>

\* search returned two records for an answer that also named two failed providers.
C7_Witness ==
    /\ PartialFailure
    /\ api_ret.kind = "list"
    /\ Len(api_ret.value) = 2
    /\ Len(api_response.errors) = 2

----------------------------------------------------------------------------
(* Sessions and endpoints, sequential use *)

\* The next step of the call is scraper.get (search line 100, info line 148).
AboutToFetch == pc \in {"s_try", "i_try"}

\* _rotate_domain has just returned to its caller.
JustRotated == pc \in {"s_after", "i_after", "i_continue"} \/ (op = "rotate" /\ pc = "idle")

----------------------------------------------------------------------------
(* Sessions, endpoints and the cursor, concurrent use *)

\* No thread is inside _rotate_domain.
NoRotationRunning == \A t \in Threads : c_pc[t] \in {"c_idle", "c_build", "c_fetch", "c_done"}

\* C12: whenever the threads have completed n calls of _rotate_domain between them
\* and none is running, the cursor is n steps (modulo K) past where it started,
\* base_url is the pool entry under the cursor and url_builder was built for it.
C12_ConcurrentRotationsAddUp ==
    (NoRotationRunning /\ c_rotations > 0) =>
        /\ current_domain_index = (start_index + c_rotations) % K
        /\ base_url = DomainAt(current_domain_index)
        /\ url_builder = base_url

\* C13: every fetch a thread has issued went through a session that was created
\* for the endpoint of the URL fetched and had been used against no other.
C13_NoCrossEndpointFetch ==
    last_fetch.kind = "fetch" =>
        /\ last_fetch.used \subseteq {last_fetch.url}
        /\ last_fetch.created_for = last_fetch.url

----------------------------------------------------------------------------
(* The constructor and the cursor *)

\* __init__ has returned and no call has been made on the instance.
FreshInstance == op = "none" /\ pc = "idle"

\* C14: right after construction, an explicit base_url that is a pool member
\* leaves the cursor on its pool index and any other explicit base_url leaves it
\* at 0; with no base_url given, the endpoint chosen is a pool member and the
\* cursor is its index.
C14_ConstructorCursor ==
    FreshInstance =>
        /\ (Truthy(ctor_arg) /\ ctor_arg \in Range(domains)) =>
               DomainAt(current_domain_index) = ctor_arg
        /\ (Truthy(ctor_arg) /\ ctor_arg \notin Range(domains)) =>
               current_domain_index = 0
        /\ ~Truthy(ctor_arg) =>
               /\ base_url \in Range(domains)
               /\ DomainAt(current_domain_index) = base_url

\* An explicit pool member that is not the first entry: the cursor is on it.
C14_Witness ==
    /\ FreshInstance
    /\ Truthy(ctor_arg)
    /\ ctor_arg \in Range(domains)
    /\ current_domain_index > 0
    /\ DomainAt(current_domain_index) = ctor_arg

\* C15: whenever no call is running on the instance (sequential use), the cursor
\* is within 0 .. K-1, the pool is the list the class was defined with, and
\* base_url is the pool entry under the cursor.
C15_CursorInvariant ==
    pc = "idle" =>
        /\ current_domain_index \in 0..(K - 1)
        /\ domains = ALTERNATIVE_DOMAINS
        /\ base_url = DomainAt(current_domain_index)

----------------------------------------------------------------------------
(* Properties of the main window's search *)

\* C16: the rows of the results table and the entries of search_results_cache
\* never come from a search that was still running when a later search was
\* started: nothing of a superseded search is displayed or cached.
C16_NoStaleResults ==
    /\ table_from \notin superseded
    /\ cache_from \cap superseded = {}

\* start_search has gone past _stop_worker with this query: directly, or when
\* the wait for the previous worker ended.
StartSearchCompletes(query) ==
    \/ StartSearch(query) /\ ~IsRunning(search_worker)
    \/ StartSearchResume /\ pending_query = query

\* C17: a start_search with an empty query shows the "Empty Search" error,
\* creates no SearchWorker, and leaves the search history, the results table and
\* search_results_cache as they were.
C17_EmptyQueryChangesNothing ==
    [][StartSearchCompletes("") =>
          /\ dialog' = EmptySearchError
          /\ UNCHANGED <<search_worker, w_pc, search_history, results_table,
                         search_results_cache>>]_vars

\* The error of an empty query is on screen while an earlier search's results are
\* still displayed and cached.
C17_Witness ==
    /\ dialog = EmptySearchError
    /\ results_table # <<>>
    /\ search_results_cache # EmptyDict
    /\ search_history # <<>>
    /\ gui_pc = "loop"

----------------------------------------------------------------------------
(* Properties of the aggregator request *)

\* A search call has been made on the client.
Called == api_posts > 0

\* The request of the call failed: transport failure or timeout, non-success
\* status, invalid JSON, or top-level GraphQL errors.
RequestFailed ==
    /\ api_pc = "idle"
    /\ api_response.kind \in {"transport_error", "http_error", "bad_json", "graphql_errors"}

\* C18: a search call issues exactly one upstream request, and when that request
\* fails the call ends by raising: it posts no second time and returns no list.
C18_OneRequestNoRetry ==
    /\ Called => api_posts = 1
    /\ RequestFailed => api_ret.kind = "raised"

C18_Witness ==
    /\ RequestFailed
    /\ api_response.kind = "http_error"
    /\ api_posts = 1
    /\ api_ret.kind = "raised"

\* The values of a table.
Values(d) == {d[k] : k \in DOMAIN d}

\* What the table d gives for the argument x, with the default otherwise.
TableOrDefault(d, x, default) == IF x \in DOMAIN d THEN d[x] ELSE default

RECURSIVE KnownMapped(_)
KnownMapped(names) ==
    IF names = <<>>
    THEN <<>>
    ELSE (IF Head(names) \in DOMAIN provider_mapping
          THEN <<provider_mapping[Head(names)]>>
          ELSE <<>>) \o KnownMapped(Tail(names))

\* C20: the provider list sent is never empty and holds only enumeration values:
\* all providers for an absent or empty list; otherwise the known names mapped and
\* the unknown ones dropped; all providers when none of the names is known.
C20_ProviderList ==
    Called =>
        /\ api_variables.providers # <<>>
        /\ Range(api_variables.providers) \subseteq Values(provider_mapping)
        /\ api_variables.providers =
              IF api_args.providers = NoList \/ api_args.providers = ListOf(<<>>)
              THEN provider_values
              ELSE IF KnownMapped(api_args.providers.v) = <<>>
              THEN provider_values
              ELSE KnownMapped(api_args.providers.v)

\* A known and an unknown name were passed: the known one alone was sent.
C20_Witness ==
    /\ Called
    /\ api_pc = "idle"
    /\ api_args.providers = ListOf(<<"Nyaa", "YTS">>)
    /\ api_variables.providers = <<"YTS">>

----------------------------------------------------------------------------
(* Properties of the records search hands back *)

\* The call has ended by returning a list.
ReturnedList == api_pc = "idle" /\ api_ret.kind = "list"

\* C21: when search returns, the list holds exactly one record per torrent of the
\* service's answer, in the order of the answer: the i-th record is the
\* conversion of the i-th torrent, nothing is dropped, added or moved.
C21_OneRecordPerTorrentInOrder ==
    ReturnedList =>
        /\ Len(api_ret.value) = Len(api_response.torrents)
        /\ \A i \in DOMAIN api_ret.value :
              /\ ConvertTorrent(api_response.torrents[i]).ok
              /\ api_ret.value[i] = ConvertTorrent(api_response.torrents[i]).value

\* Two different torrents were answered and two different records came back.
C21_Witness ==
    /\ ReturnedList
    /\ Len(api_ret.value) = MaxTorrents
    /\ api_response.torrents[1] # api_response.torrents[2]
    /\ api_ret.value[1] # api_ret.value[2]

----------------------------------------------------------------------------
(* Properties of the normalisation of one raw record *)

Converted == conv_out.kind = "record"

ConversionRaised == conv_out.kind = "raised"

\* C22: for every raw record whose fields are independently absent, null or
\* present with a value, _convert_torrent returns a record and raises nothing.
C22_ConversionNeverRaises == conv_out # NotYet => Converted

\* The category names of the application.
CanonicalCategories == {"All", "Video", "Audio", "Games", "Applications", "Other"}

\* C23: a raw record whose category string is not one of the canonical names, or
\* whose category is missing, is normalised to the category Other.
C23_UnknownOrMissingCategoryIsOther ==
    /\ Converted
    /\ \/ conv_in.category = JAbsent
       \/ conv_in.category.t = "str" /\ conv_in.category.v \notin CanonicalCategories
    => conv_out.value.category = JStr("Other")

\* C24: the identity of the normalised record is the raw infoHash when that field
\* is present, otherwise the raw id when present, otherwise the empty string.
C24_IdentityFallsBackToId ==
    Converted =>
        conv_out.value.torrent_id =
            IF conv_in.infoHash # JAbsent THEN conv_in.infoHash
            ELSE IF conv_in.id # JAbsent THEN conv_in.id
            ELSE JStr("")

\* The timestamps of the model that datetime.fromisoformat reads once a trailing Z
\* is taken as UTC, each with its YYYY-MM-DD HH:MM form.
ParsableStamps ==
    ("2024-01-02T03:04:05Z" :> "2024-01-02 03:04")
    @@ ("2024-01-02T03:04:05+00:00" :> "2024-01-02 03:04")
    @@ ("2024-01-02T03:04:05.123456789Z" :> "2024-01-02 03:04")
    @@ ("2024-01-02T23:59:59+02:00" :> "2024-01-02 23:59")
    @@ ("2023-12-31" :> "2023-12-31 00:00")

Parsable(added) == added.t = "str" /\ added.v \in DOMAIN ParsableStamps

OptionalFields == {"seeders", "leechers", "magnet", "provider", "fileCount"}

\* C27: a raw record without the optional fields is normalised with the defaults
\* of the data model: seeders 0, leechers 0, empty magnet link, provider
\* "Unknown", uploader "Unknown" and file count 1.
C27_DefaultsOfTheDataModel ==
    Converted /\ (\A k \in OptionalFields : conv_in[k] = JAbsent) =>
        /\ conv_out.value.seeders = JStr("0")
        /\ conv_out.value.leechers = JStr("0")
        /\ conv_out.value.magnet_link = JStr("")
        /\ conv_out.value.provider = JStr("Unknown")
        /\ conv_out.value.uploader = JStr("Unknown")
        /\ conv_out.info.uploader = JStr("Unknown")
        /\ conv_out.info.file_count = JInt(1)

----------------------------------------------------------------------------
(* Properties of _format_size *)

AllUnits == SizeUnits \o <<"PB">>

\* The number of divisions by 1024 that bring the count below 1024, at most 5:
\* k with 1024^k <= B < 1024^(k+1), 0 for B < 1024.
RECURSIVE Divisions(_)
Divisions(s) ==
    IF Len(s) = 1 \/ s[Len(s)] # 0 THEN Len(s) - 1 ELSE Divisions(SubSeq(s, 1, Len(s) - 1))

Formatted == size_out.kind = "formatted"

\* The unit is the one the repeated division picks.
UnitByDivisions == size_out.parts.unit = AllUnits[Divisions(size_in) + 1]

\* The displayed magnitude, in hundredths.
DisplayedHundredths == size_out.parts.whole * 100 + size_out.parts.cents

\* C26, as claimed: the unit is picked by repeated division by 1024, capped at PB,
\* and the displayed magnitude is below 1024 for every unit except PB.
C26_UnitAndMagnitudeBelowKibi ==
    Formatted =>
        /\ UnitByDivisions
        /\ size_out.parts.unit # "PB" => DisplayedHundredths < Kibi * 100

\* C26, amended: the unit is picked by repeated division by 1024, capped at PB;
\* the magnitude before rounding is below 1024 for every unit except PB, and the
\* displayed magnitude is it rounded to two decimals, which is at most 1024.00.
C26_UnitAndRoundedMagnitude ==
    Formatted =>
        /\ UnitByDivisions
        /\ size_out.parts.unit # "PB" =>
              /\ size_in[Divisions(size_in) + 1] < Kibi
              /\ size_out.parts.whole \in {size_in[Divisions(size_in) + 1],
                                           size_in[Divisions(size_in) + 1] + 1}
              /\ DisplayedHundredths <= Kibi * 100
        /\ size_out.text = ToString(size_out.parts.whole) \o "."
                             \o TwoDigits(size_out.parts.cents) \o " "
                             \o size_out.parts.unit

\* 1048575 bytes: 1023.999 KB before rounding, displayed as 1024.00 KB.
C26_Witness ==
    /\ Formatted
    /\ size_in = <<Kibi - 1, Kibi - 1, 0, 0, 0, 0>>
    /\ size_out.text = "1024.00 KB"

----------------------------------------------------------------------------
(* Properties of test_connection *)

\* C28: test_connection never raises: for every probe outcome (HTTP 200, another
\* status, connect timeout, connection error, other request error, any other
\* exception) it returns a mapping with status, message and url, and the status
\* is "success" exactly when the probe returned HTTP 200.
C28_ProbeAlwaysAnswered ==
    probe_out # NotYet =>
        /\ probe_out.kind = "returned"
        /\ DOMAIN probe_out.value = {"status", "message", "url"}
        /\ probe_out.value.status \in {"success", "error"}
        /\ probe_out.value.url = api_url
        /\ probe_out.value.status = "success"
              <=> (probe_in.kind = "response" /\ probe_in.status_code = 200)

\* A read timeout, which only the RequestException clause catches, is answered
\* with an error.
C28_Witness ==
    /\ probe_in = [kind |-> "raised", exc |-> "ReadTimeout"]
    /\ probe_out # NotYet
    /\ probe_out.kind = "returned"
    /\ probe_out.value.status = "error"
    /\ probe_out.value.message = "Network error: str(e)"

----------------------------------------------------------------------------
(* Properties of the server manager *)

\* start_server has returned True having spawned a process, and n stop_server
\* calls have returned since.
StoppedAfterStart(n) == started # NoneVal /\ srv_pc = "idle" /\ Len(stop_log) >= n

\* C30, as claimed: after start_server returned True having spawned a process, a
\* following stop_server leaves that process not running and self.process =
\* None, and a second stop_server changes nothing.
C30_StopLeavesNoProcess ==
    /\ StoppedAfterStart(1) => proc_state[started] # "running" /\ process = NoneVal
    /\ StoppedAfterStart(2) => ~stop_log[2].changed

\* C30, amended: after start_server returned True having spawned a process, a
\* following stop_server leaves that process not running; when the stop found it
\* running, it was terminated or killed and self.process is None; when it had
\* exited by itself, self.process still holds it.  A second stop_server changes
\* nothing.
C30_StopLeavesProcessEnded ==
    /\ StoppedAfterStart(1) =>
          IF stop_log[1].found_running
          THEN proc_state[started] \in {"terminated", "killed"} /\ process = NoneVal
          ELSE proc_state[started] = "exited" /\ process = started
    /\ StoppedAfterStart(2) => ~stop_log[2].changed

\* The spawned process did not end within the grace period and was killed; a
\* second stop_server has returned.
C30_Witness ==
    /\ StoppedAfterStart(2)
    /\ stop_log[1].found_running
    /\ proc_state[started] = "killed"
    /\ process = NoneVal

----------------------------------------------------------------------------
(* Properties of the details of a selected result *)

\* C29: after the results of a search have been delivered, selecting a result row
\* with a non-empty torrent_id yields details, the magnet link included, taken
\* from search_results_cache under that torrent_id, and no request is made.
C29_DetailsFromCacheUnderId ==
    selected_row # 0 /\ Truthy(current_torrent_info.torrent_id) =>
        /\ current_torrent_info.torrent_id \in DOMAIN search_results_cache
        /\ current_torrent_info.magnet_link =
               search_results_cache[current_torrent_info.torrent_id].magnet_link
        /\ api_posts = 0

----------------------------------------------------------------------------
(* Properties of the search worker *)

\* The signals of worker w in a queue, and those of one kind.
FromWorker(queue, w) == SelectSeq(queue, LAMBDA s : s.worker = w)

OfKind(queue, kind) == SelectSeq(queue, LAMBDA s : s.signal = kind)

\* What a step has put at the end of the queue.
Emitted == SubSeq(gui_queue', Len(gui_queue) + 1, Len(gui_queue'))

\* C31: every SearchWorker.run emits search_finished exactly once, whether the
\* search returned results, returned none, or raised; on an exception it emits
\* the error signal exactly once, before search_finished([]); run returns (the
\* exception does not leave the thread), and a worker emits nothing outside its
\* one run.
C31_RunEmitsFinishedOnce ==
    [][\A w \in Workers :
         IF w_pc[w] = "running" /\ w_pc'[w] # "running"
         THEN /\ w_pc'[w] = "emitted"
              /\ FromWorker(gui_queue, w) = <<>>
              /\ gui_queue' = gui_queue \o Emitted
              /\ FromWorker(Emitted, w) = Emitted
              /\ Len(OfKind(Emitted, "search_finished")) = 1
              /\ Emitted[Len(Emitted)].signal = "search_finished"
              /\ Len(OfKind(Emitted, "error")) <= 1
              /\ OfKind(Emitted, "error") # <<>> =>
                    /\ Emitted[1].signal = "error"
                    /\ Len(Emitted) = 2
                    /\ Emitted[2].items = <<>>
         ELSE /\ Len(FromWorker(gui_queue', w)) <= Len(FromWorker(gui_queue, w))
              /\ w_pc[w] \in {"emitted", "finished"} => w_pc'[w] \in {"emitted", "finished"}
      ]_vars

\* A search raised in the worker: the error signal and search_finished([]) are
\* queued, in this order, and run has returned.
C31_Witness ==
    \E w \in Workers :
        /\ w_pc[w] = "finished"
        /\ FromWorker(gui_queue, w) = <<SearchError(w), SearchFinished(w, <<>>)>>

\* C33: a server that is already reachable when start_server is called on a
\* manager that holds no process is neither spawned nor stopped by the manager:
\* start_server returns True, creates no process and leaves self.process None,
\* and a stop_server that finds self.process None terminates no process.
C33_ReachableServerLeftAlone ==
    [][/\ (\E pid \in Pids, spawned \in BOOLEAN : StartServer(pid, spawned))
          /\ IsServerRunning /\ process = NoneVal
          => /\ start_ret' = "True"
             /\ process' = NoneVal
             /\ proc_state' = proc_state
             /\ answering' = answering
             /\ srv_pc' = "idle"
       /\ StopServer /\ process = NoneVal
          => /\ process' = NoneVal
             /\ proc_state' = proc_state
             /\ answering' = answering
             /\ srv_pc' = "idle"
      ]_vars

\* An external server answered, start_server returned True without a spawn, and
\* a stop_server has returned since: nothing was spawned, the server still
\* answers.
C33_Witness ==
    /\ srv_pc = "idle"
    /\ start_ret = "True"
    /\ started = NoneVal
    /\ process = NoneVal
    /\ Len(stop_log) >= 1
    /\ answering = {"external"}
    /\ \A pid \in Pids : proc_state[pid] = "unborn"

\* The latest start_server spawned a process and has returned.
SpawnedAndReturned == srv_pc = "idle" /\ stop_log = <<>> /\ process # NoneVal

\* C34: a start_server that spawns a process returns True exactly when one of its
\* at most 15 probes succeeds; when none succeeds it returns False with the
\* process still recorded in self.process; in sequential use no spawned process
\* is ever both running and untracked; without an executable start_server
\* returns False without spawning.
C34_SpawnedProcessTracked ==
    /\ polls <= StartPolls
    /\ srv_pc = "start_wait" => process # NoneVal /\ polls < StartPolls
    /\ SpawnedAndReturned /\ start_ret = "True" /\ started # NoneVal =>
          started = process /\ polls < StartPolls
    /\ SpawnedAndReturned /\ start_ret = "False" /\ polls = StartPolls =>
          proc_state[process] # "unborn"
    /\ server_executable = NoneVal => \A pid \in Pids : proc_state[pid] = "unborn"
    /\ \A pid \in Pids : proc_state[pid] = "running" => process = pid

----------------------------------------------------------------------------
(* Properties of closing the window while the server is being started *)

\* closeEvent has completed.
Closed == srv_pc.closer \in {"closed", "exit_wait", "exited"}

\* C32: when the window is closed while the start_server thread is still running,
\* after closeEvent has completed no server process spawned by this application
\* remains running, wherever stop_server falls between the steps of start_server.
C32_NoServerLeftAfterClose ==
    Closed => \A pid \in Pids : proc_state[pid] # "running"

\* C35: the details shown for a selected row never carry the magnet link of
\* another record: the magnet link in current_torrent_info is the magnet link of
\* the record the selected row displays.
C35_MagnetOfTheSelectedRecord ==
    selected_row # 0 =>
        current_torrent_info.magnet_link = results_table[selected_row].magnet_link

----------------------------------------------------------------------------
(* Properties of the search history *)

\* No entry occurs twice in the list.
NoDuplicates(list) ==
    \A i, j \in 1..Len(list) : list[i] = list[j] => i = j

\* start_search goes past its test of the query: at once, or after the wait for
\* the previous worker.
SearchStarted(query) ==
    /\ Truthy(query)
    /\ \/ StartSearch(query) /\ gui_pc' = "loop"
       \/ StartSearchResume /\ pending_query = query

\* C37: from a loaded history of at most 50 distinct entries, search_history
\* always has at most 50 entries and no duplicates; a search for a query not in
\* the history puts it at the front, dropping the oldest entry when there were
\* 50 already; a search for a query in the history leaves it unchanged; nothing
\* but a search and a clear changes the history.
C37_HistoryBoundedAndDistinct ==
    /\ [](Len(search_history) <= 50 /\ NoDuplicates(search_history))
    /\ [][/\ \A query \in HistoryQueries :
                SearchStarted(query) =>
                    IF \E i \in 1..Len(search_history) : search_history[i] = query
                    THEN search_history' = search_history
                    ELSE /\ Head(search_history') = query
                         /\ Tail(search_history') =
                               IF Len(search_history) = 50
                               THEN SubSeq(search_history, 1, 49)
                               ELSE search_history
          /\ search_history' # search_history =>
                \/ ClearSearchHistory
                \/ \E query \in HistoryQueries : SearchStarted(query)]_vars

\* A search put "ubuntu" at the front of a full history, and the oldest entry
\* went.
C37_Witness ==
    /\ Len(search_history) = 50
    /\ Head(search_history) = "ubuntu"
    /\ search_history[50] = HistoryEntry(49)
    /\ \A i \in 1..50 : search_history[i] # HistoryEntry(50)

----------------------------------------------------------------------------
(* Properties of the favorites *)

\* The favorites whose torrentId is id.
WithId(list, id) == {i \in 1..Len(list) : list[i].torrentId = id}

\* C38: from a loaded favorites list with pairwise distinct torrentId values, no
\* two favorites ever share a torrentId; add_to_favorites appends one favorite,
\* with the id of the torrent on display, when no favorite has that id and
\* changes nothing otherwise; remove_from_favorites with a selected row removes
\* the favorites with the selected id and keeps every other in place; nothing
\* else changes the list.
C38_FavoritesDistinct ==
    /\ [](\A i, j \in 1..Len(favorites) :
              favorites[i].torrentId = favorites[j].torrentId => i = j)
    /\ [][/\ AddToFavorites =>
                IF WithId(favorites, current_torrent_info.torrent_id) = {}
                THEN /\ Len(favorites') = Len(favorites) + 1
                     /\ SubSeq(favorites', 1, Len(favorites)) = favorites
                     /\ favorites'[Len(favorites')].torrentId =
                            current_torrent_info.torrent_id
                ELSE favorites' = favorites
          /\ (RemoveFromFavorites /\ favorite_row # 0) =>
                LET id == favorites[favorite_row].torrentId
                    others == {i \in 1..Len(favorites) : favorites[i].torrentId # id}
                IN /\ WithId(favorites', id) = {}
                   /\ Len(favorites') = Cardinality(others)
                   /\ \A i \in others :
                         favorites'[Cardinality({j \in others : j <= i})] = favorites[i]
          /\ favorites' # favorites => AddToFavorites \/ RemoveFromFavorites]_vars

\* The torrent of a selected result row was added to a loaded list of two, and
\* the first of the loaded favorites was then removed.
C38_Witness ==
    /\ Len(favorites) = 2
    /\ favorites[1] = Favorite("", "Gamma", "magnet:gamma")
    /\ favorites[2].torrentId = "hash1"

====
